---- MODULE Spec2Model ----
(***************************************************************************)
(* Model of codeindex: the SQLite store (CodeDatabase), the incremental    *)
(* indexer (Indexer), the call-chain walk of the query engine              *)
(* (QueryEngine.buildCallChain) and the live-watch pipeline (FileWatcher). *)
(*                                                                         *)
(* The store is the record db, one field per table plus sqlite_sequence.   *)
(* better-sqlite3 is built with SQLITE_DEFAULT_FOREIGN_KEYS=1, so the      *)
(* ON DELETE CASCADE clauses of initSchema are enforced.                   *)
(***************************************************************************)
EXTENDS Integers, Sequences, FiniteSets, TLC

VARIABLES disk, db, lastOp, chain, watch, job, query, go, java, glob

vars == <<disk, db, lastOp, chain, watch, job, query, go, java, glob>>

---------------------------------------------------------------------------
(* Bounds of the model *)

\* the file contents the file system can hold
Contents == {1, 2}
\* the most call sites of a file whose call graph buildCallChain walks
MaxChainCalls == 3
\* the largest depth option asked of buildCallChain besides the default
MaxDepthOption == 2
\* caps on the AUTOINCREMENT counters of symbols and files in sqlite_sequence;
\* an indexFile call inserts at most as many calls and references as symbols
MaxSymbolId == 3
MaxFileId == 2

---------------------------------------------------------------------------
(* Paths are sequences of characters, relative to rootDir *)

PathA == <<"d", "/", "a", ".", "t", "s">>
PathB == <<"d", "2", "/", "b", ".", "t", "s">>

Paths == {PathA, PathB}

\* TreeSitterParser.getLanguageForFile: the text after the last "."
LastDot(path) ==
  LET dots == {i \in 1..Len(path) : path[i] = "."}
  IN  IF dots = {} THEN 0 ELSE CHOOSE i \in dots : \A j \in dots : j <= i

getLanguageForFile(path) ==
  LET ext == SubSeq(path, LastDot(path) + 1, Len(path))
  IN  IF ext = <<"t", "s">> THEN "ts"
      ELSE IF ext = <<"g", "o">> THEN "go"
      ELSE IF ext = <<"j", "s">> THEN "js"
      ELSE "none"

\* IndexOptions.languages
Languages == {"ts", "go"}

---------------------------------------------------------------------------
(* File contents.  A content is identified by a number of Contents;         *)
(* 0 on disk means that the file does not exist.                           *)

\* Indexer.hashContent: SHA-256 of the content, distinct contents hash apart
hashContent(c) == <<"sha256", c>>

\* a function, or a method when the qualified name carries the owner
Sym(n, q, s, e) ==
  [name |-> n, qualifiedName |-> q, startLine |-> s, endLine |-> e,
   kind |-> IF q = n THEN "function" ELSE "method"]
CallSite(n, l) == [calleeName |-> n, siteStartLine |-> l]
RefSite(n, l) == [name |-> n, startLine |-> l]

\* The contents from GraphBase on hold the functions f1, f2, f3, ten lines
\* each, and one call site for each pair <<i, j>> (fi calls fj) whose bit is
\* set in c - GraphBase.
ChainSymbols == {1, 2, 3}
GraphBase == 100
FnName == <<"f1", "f2", "f3">>
PairBit(i, j) == 3 * (i - 1) + (j - 1)
HasPair(mask, i, j) == (mask \div (2 ^ PairBit(i, j))) % 2 = 1

RECURSIVE GraphCalls(_, _)
GraphCalls(mask, k) ==
  IF k >= 9 THEN <<>>
  ELSE LET i == (k \div 3) + 1
           j == (k % 3) + 1
       IN  (IF HasPair(mask, i, j) THEN <<CallSite(FnName[j], 10 * i + j)>> ELSE <<>>)
           \o GraphCalls(mask, k + 1)

GraphExtraction(mask) ==
  [symbols |-> [i \in 1..3 |-> Sym(FnName[i], FnName[i], 10 * i, 10 * i + 9)],
   calls |-> GraphCalls(mask, 0),
   references |-> <<>>]

\* The contents from DiamondBase on hold the functions f1, f2, f3, f4, ten
\* lines each, and one call site for each pair of DiamondPairs whose bit is
\* set in c - DiamondBase, in the order of their lines.
DiamondSymbols == {1, 2, 3, 4}
DiamondBase == 1000
DiamondNames == <<"f1", "f2", "f3", "f4">>
DiamondPairs == <<<<1, 2>>, <<1, 3>>, <<2, 3>>, <<2, 4>>, <<3, 4>>, <<4, 1>>>>

RECURSIVE DiamondCalls(_, _)
DiamondCalls(mask, k) ==
  IF k > Len(DiamondPairs) THEN <<>>
  ELSE LET i == DiamondPairs[k][1]
           j == DiamondPairs[k][2]
       IN  (IF (mask \div (2 ^ (k - 1))) % 2 = 1
            THEN <<CallSite(DiamondNames[j], 10 * i + j)>> ELSE <<>>)
           \o DiamondCalls(mask, k + 1)

DiamondExtraction(mask) ==
  [symbols |-> [i \in 1..4 |-> Sym(DiamondNames[i], DiamondNames[i], 10 * i, 10 * i + 9)],
   calls |-> DiamondCalls(mask, 1),
   references |-> <<>>]

\* what parse + extract yield for a content
Extraction(c) ==
  IF c >= DiamondBase THEN DiamondExtraction(c - DiamondBase)
  ELSE IF c >= GraphBase THEN GraphExtraction(c - GraphBase)
  ELSE IF c = 1 THEN
    [symbols |-> <<Sym("f", "f", 1, 3)>>,
     calls |-> <<CallSite("g", 2)>>,
     references |-> <<RefSite("g", 2)>>]
  ELSE IF c = 2 THEN
    [symbols |-> <<Sym("g", "g", 1, 3)>>,
     calls |-> <<CallSite("f", 2)>>,
     references |-> <<RefSite("f", 2)>>]
  ELSE IF c = 3 THEN
    [symbols |-> <<Sym("f", "f", 1, 5), Sym("g", "f.g", 2, 3)>>,
     calls |-> <<CallSite("f", 2), CallSite("h", 4), CallSite("g", 9)>>,
     references |-> <<RefSite("h", 4)>>]
  ELSE IF c = 5 THEN
    \* two blocks that each declare a function f, the first calling g
    [symbols |-> <<Sym("f", "f", 1, 3), Sym("f", "f", 5, 7), Sym("g", "g", 9, 9)>>,
     calls |-> <<CallSite("g", 2)>>,
     references |-> <<>>]
  ELSE
    [symbols |-> <<Sym("g", "g", 1, 1)>>,
     calls |-> <<>>,
     references |-> <<RefSite("g", 1)>>]

---------------------------------------------------------------------------
(* CodeDatabase *)

EmptyDb ==
  [files |-> {}, symbols |-> {}, calls |-> {}, refs |-> {}, embeddings |-> {},
   seq |-> [files |-> 0, symbols |-> 0, calls |-> 0, refs |-> 0]]

\* row ids in ascending order (the store's native order of a result set)
RECURSIVE InIdOrder(_)
InIdOrder(ids) ==
  IF ids = {} THEN <<>>
  ELSE LET first == CHOOSE i \in ids : \A o \in ids : i <= o
       IN  <<first>> \o InIdOrder(ids \ {first})

getFileByPath(d, path) == {f \in d.files : f.path = path}

\* INSERT ... ON CONFLICT(path) DO UPDATE ... RETURNING file_id
upsertedFileId(d, path) ==
  IF getFileByPath(d, path) = {} THEN d.seq.files + 1
  ELSE (CHOOSE f \in getFileByPath(d, path) : TRUE).fileId

insertFile(d, path, language, contentHash) ==
  IF getFileByPath(d, path) = {}
  THEN [d EXCEPT !.files = @ \cup {[fileId |-> d.seq.files + 1, path |-> path,
                                    language |-> language, contentHash |-> contentHash]},
                 !.seq.files = @ + 1]
  ELSE [d EXCEPT !.files = {IF f.path = path THEN [f EXCEPT !.contentHash = contentHash] ELSE f
                            : f \in @}]

\* cascadeSymbols with no ON DELETE CASCADE on the calls table
cascadeSymbolsKeepCalls(d, gone) ==
  [d EXCEPT !.symbols = {s \in @ : s.symbolId \notin gone},
            !.refs = {r \in @ : r.toSymbolId \notin gone},
            !.embeddings = {e \in @ : e.symbolId \notin gone}]

\* ON DELETE CASCADE of calls, symbol_references and symbol_embeddings on symbols
cascadeSymbols(d, gone) ==
  [d EXCEPT !.symbols = {s \in @ : s.symbolId \notin gone},
            !.calls = {c \in @ : c.callerSymbolId \notin gone /\ c.calleeSymbolId \notin gone},
            !.refs = {r \in @ : r.toSymbolId \notin gone},
            !.embeddings = {e \in @ : e.symbolId \notin gone}]

deleteSymbolsByFile(d, fileId) ==
  cascadeSymbols(d, {s.symbolId : s \in {x \in d.symbols : x.fileId = fileId}})

deleteCallsByFile(d, fileId) ==
  [d EXCEPT !.calls = {c \in @ : c.siteFileId # fileId}]

deleteReferencesByFile(d, fileId) ==
  [d EXCEPT !.refs = {r \in @ : r.fromFileId # fileId}]

\* deleteFile with no foreign key of the file's rows enforced
deleteFileRowOnly(d, fileId) ==
  [d EXCEPT !.files = {f \in @ : f.fileId # fileId}]

\* DELETE FROM files: cascades to symbols, calls (site_file_id) and
\* symbol_references (from_file_id), and through symbols to the rest
deleteFile(d, fileId) ==
  LET d1 == deleteSymbolsByFile(d, fileId)
  IN  [d1 EXCEPT !.files = {f \in @ : f.fileId # fileId},
                 !.calls = {c \in @ : c.siteFileId # fileId},
                 !.refs = {r \in @ : r.fromFileId # fileId}]

insertSymbol(d, symbol, fileId) ==
  [d EXCEPT !.symbols = @ \cup {[symbolId |-> d.seq.symbols + 1, fileId |-> fileId,
                                 language |-> (CHOOSE f \in d.files : f.fileId = fileId).language,
                                 kind |-> symbol.kind,
                                 name |-> symbol.name,
                                 qualifiedName |-> symbol.qualifiedName,
                                 startLine |-> symbol.startLine,
                                 endLine |-> symbol.endLine]},
            !.seq.symbols = @ + 1]

getSymbolById(d, symbolId) == {s \in d.symbols : s.symbolId = symbolId}

\* the symbolIds of the rows with that name, in native order
findSymbolsByName(d, name) ==
  InIdOrder({s.symbolId : s \in {x \in d.symbols : x.name = name}})

insertCall(d, caller, callee, fileId, line) ==
  [d EXCEPT !.calls = @ \cup {[callId |-> d.seq.calls + 1, callerSymbolId |-> caller,
                               calleeSymbolId |-> callee, siteFileId |-> fileId,
                               siteStartLine |-> line]},
            !.seq.calls = @ + 1]

insertReference(d, fileId, line, target) ==
  [d EXCEPT !.refs = @ \cup {[refId |-> d.seq.refs + 1, fromFileId |-> fileId,
                              fromStartLine |-> line, toSymbolId |-> target]},
            !.seq.refs = @ + 1]

\* INSERT ... ON CONFLICT(symbol_id, model) DO UPDATE
insertEmbedding(d, symbolId, model) ==
  [d EXCEPT !.embeddings = @ \cup {[symbolId |-> symbolId, model |-> model]}]

\* DELETE FROM symbol_references; calls; symbols; files (in one transaction)
\* clearAll without the DELETE FROM files
clearAllButFiles(d) ==
  LET d1 == [d EXCEPT !.refs = {}, !.calls = {}]
  IN  cascadeSymbols(d1, {s.symbolId : s \in d1.symbols})

clearAll(d) ==
  LET d1 == [d EXCEPT !.refs = {}, !.calls = {}]
      d2 == cascadeSymbols(d1, {s.symbolId : s \in d1.symbols})
  IN  [d2 EXCEPT !.files = {}]

---------------------------------------------------------------------------
(* Indexer *)

\* the innermost symbol containing the line: the first one of smallest range,
\* as an index into the extracted symbols (0: none)
findContainingSymbol(symbols, line) ==
  LET inside == {i \in 1..Len(symbols) :
                   line >= symbols[i].startLine /\ line <= symbols[i].endLine}
      range(i) == symbols[i].endLine - symbols[i].startLine
  IN  IF inside = {} THEN 0
      ELSE CHOOSE i \in inside :
             \A j \in inside : range(i) < range(j) \/ (range(i) = range(j) /\ i <= j)

\* symbolMap.get(qualifiedName): the id of the last symbol inserted under it,
\* the symbols having got the ids base+1 .. base+Len(symbols)
symbolMapGet(symbols, base, qualifiedName) ==
  LET same == {i \in 1..Len(symbols) : symbols[i].qualifiedName = qualifiedName}
  IN  base + (CHOOSE i \in same : \A j \in same : j <= i)

RECURSIVE storeSymbols(_, _, _, _)
storeSymbols(d, symbols, i, fileId) ==
  IF i > Len(symbols) THEN d
  ELSE storeSymbols(insertSymbol(d, symbols[i], fileId), symbols, i + 1, fileId)

RECURSIVE storeCalls(_, _, _, _, _)
storeCalls(d, extraction, i, fileId, base) ==
  IF i > Len(extraction.calls) THEN d
  ELSE LET call == extraction.calls[i]
           calleeSymbols == findSymbolsByName(d, call.calleeName)
           callerSymbol == findContainingSymbol(extraction.symbols, call.siteStartLine)
           d1 == IF Len(calleeSymbols) > 0 /\ callerSymbol # 0
                 THEN insertCall(d,
                        symbolMapGet(extraction.symbols, base,
                                     extraction.symbols[callerSymbol].qualifiedName),
                        calleeSymbols[1], fileId, call.siteStartLine)
                 ELSE d
       IN  storeCalls(d1, extraction, i + 1, fileId, base)

RECURSIVE storeReferences(_, _, _, _)
storeReferences(d, references, i, fileId) ==
  IF i > Len(references) THEN d
  ELSE LET targetSymbols == findSymbolsByName(d, references[i].name)
           d1 == IF Len(targetSymbols) > 0
                 THEN insertReference(d, fileId, references[i].startLine, targetSymbols[1])
                 ELSE d
       IN  storeReferences(d1, references, i + 1, fileId)

\* the ways an indexFile call can go wrong after the hash comparison
FailKinds == {"none", "parse", "insert"}

\* db.transaction(fn): the writes of fn, or none of them when fn throws
transaction(before, after, throws) == IF throws THEN before ELSE after

\* needsReindex without the comparison of the hashes: every call re-indexes
needsReindexAlways(existingFile, contentHash) == TRUE

\* "Check if file needs reindexing": a stored row with the same hash skips
needsReindex(existingFile, contentHash) ==
  ~(existingFile # {} /\ (CHOOSE f \in existingFile : TRUE).contentHash = contentHash)

\* Indexer.indexFile on the file system dk; fail says where an exception is
\* thrown.  The result is the store afterwards and how the call ended.
indexFile(d, dk, path, fail) ==
  LET language == getLanguageForFile(path)
      contentHash == hashContent(dk[path])
      existingFile == getFileByPath(d, path)
      d1 == IF existingFile # {}
            THEN LET fileId == (CHOOSE f \in existingFile : TRUE).fileId
                 IN  deleteReferencesByFile(
                       deleteCallsByFile(deleteSymbolsByFile(d, fileId), fileId), fileId)
            ELSE d
      fileId == upsertedFileId(d1, path)
      d2 == insertFile(d1, path, language, contentHash)
      extraction == Extraction(dk[path])
      base == d2.seq.symbols
      d3 == storeSymbols(d2, extraction.symbols, 1, fileId)
      d4 == storeCalls(d3, extraction, 1, fileId, base)
      d5 == storeReferences(d4, extraction.references, 1, fileId)
  IN  IF language \notin Languages THEN [db |-> d, outcome |-> "unsupported"]
      ELSE IF dk[path] = 0 THEN [db |-> d, outcome |-> "read threw"]
      ELSE IF ~needsReindex(existingFile, contentHash)
           THEN [db |-> d, outcome |-> "skipped"]
      ELSE IF fail = "parse" THEN [db |-> d2, outcome |-> "parse threw"]
      ELSE IF fail = "insert" THEN [db |-> transaction(d2, d5, TRUE), outcome |-> "insert threw"]
      ELSE [db |-> transaction(d2, d5, FALSE), outcome |-> "indexed"]

\* the failures of one run of indexAll over files: at most one file fails,
\* one that the run parses (whether it does depends on its own row only).
\* The failure is one of the parser: one inside the transaction leaves the
\* same store.
FailPlans(d, dk, files) ==
  {[p \in Paths |-> "none"]} \cup
  {[p \in Paths |-> IF p = bad THEN "parse" ELSE "none"] :
     bad \in {f \in {files[i] : i \in 1..Len(files)} :
                indexFile(d, dk, f, "parse").outcome = "parse threw"}}

\* the catch block of indexAll is entered for some file of the run
caught(fails) == \E p \in Paths : fails[p] # "none"

\* the outcomes of indexFile that are an exception
Throws == {"read threw", "parse threw", "insert threw"}

\* indexAll without the try block around indexFile: the first exception ends
\* the loop
RECURSIVE indexAllAborting(_, _, _, _, _)
indexAllAborting(d, dk, files, i, fails) ==
  IF i > Len(files) THEN d
  ELSE LET call == indexFile(d, dk, files[i], fails[files[i]])
       IN  IF call.outcome \in Throws THEN call.db
           ELSE indexAllAborting(call.db, dk, files, i + 1, fails)

\* Indexer.indexAll over the scanned files, in enumeration order; an exception
\* of indexFile is caught and the loop goes on
RECURSIVE indexAll(_, _, _, _, _)
indexAll(d, dk, files, i, fails) ==
  IF i > Len(files) THEN d
  ELSE indexAll(indexFile(d, dk, files[i], fails[files[i]]).db, dk, files, i + 1, fails)

\* Indexer.scanFiles: the files on disk, in one of the orders the glob may give
scanFiles(dk) ==
  LET found == {p \in Paths : dk[p] # 0}
  IN  {order \in [1..Cardinality(found) -> found] :
         \A i, j \in 1..Cardinality(found) : i # j => order[i] # order[j]}

\* the ids the store would hand out stay within the caps
WithinCaps(d) ==
  /\ d.seq.files <= MaxFileId
  /\ d.seq.symbols <= MaxSymbolId

---------------------------------------------------------------------------
(* The state machine of the store: file system changes, the public         *)
(* operations of CodeIndex and the deletion handlers of FileWatcher        *)

NoPath == <<>>

\* the operation of the last step: its name, its path, how it ended, and
\* whether it left the store as it was
Op(op, path, outcome, noop) == [op |-> op, path |-> path, outcome |-> outcome, noop |-> noop]

\* String.startsWith
startsWith(path, prefix) ==
  Len(path) >= Len(prefix) /\ SubSeq(path, 1, Len(prefix)) = prefix

\* the directories whose removal the watcher may report
Dirs == {<<"d">>, <<"d", "2">>}

\* the filter without the separator: every path that begins with the name
inDirectoryByPrefix(path, dirPath) == startsWith(path, dirPath) \/ path = dirPath

\* handleDirectoryDelete's filter
inDirectory(path, dirPath) == startsWith(path, dirPath \o <<"/">>) \/ path = dirPath

StoreInit ==
  /\ disk = [p \in Paths |-> 0]
  /\ db = EmptyDb
  /\ lastOp = Op("init", NoPath, "done", TRUE)

\* the environment writes a file
WriteFile(p, c) ==
  /\ disk[p] # c
  /\ disk' = [disk EXCEPT ![p] = c]
  /\ lastOp' = Op("env", NoPath, "done", TRUE)
  /\ UNCHANGED <<db, chain, watch, job, query, go, java, glob>>

\* the environment removes a file
RemoveFile(p) ==
  /\ disk[p] # 0
  /\ disk' = [disk EXCEPT ![p] = 0]
  /\ lastOp' = Op("env", NoPath, "done", TRUE)
  /\ UNCHANGED <<db, chain, watch, job, query, go, java, glob>>

\* CodeIndex.updateFiles / the watcher's batch: indexFile on one path
IndexFile(p, fail) ==
  LET call == indexFile(db, disk, p, fail)
  IN  /\ fail = "none" \/ call.outcome \in Throws
      /\ WithinCaps(call.db)
      /\ db' = call.db
      /\ lastOp' = Op("indexFile", p, IF call.outcome \in Throws THEN "threw" ELSE "done",
                     call.db = db)
      /\ UNCHANGED <<disk, chain, watch, job, query, go, java, glob>>

\* CodeIndex.reindexAll
IndexAll(files, fails) ==
  /\ db' = indexAll(db, disk, files, 1, fails)
  /\ WithinCaps(db')
  /\ lastOp' = Op("indexAll", NoPath, IF caught(fails) THEN "caught" ELSE "done", db' = db)
  /\ UNCHANGED <<disk, chain, watch, job, query, go, java, glob>>

\* CodeIndex.rebuild: clearAll, indexAll, vacuum
Rebuild(files, fails) ==
  /\ db' = indexAll(clearAll(db), disk, files, 1, fails)
  /\ WithinCaps(db')
  /\ lastOp' = Op("rebuild", NoPath, IF caught(fails) THEN "caught" ELSE "done", db' = db)
  /\ UNCHANGED <<disk, chain, watch, job, query, go, java, glob>>

\* FileWatcher.handleFileDelete, on the unlink event of a removed file
HandleFileDelete(p) ==
  /\ disk[p] = 0
  /\ db' = IF getFileByPath(db, p) # {}
           THEN deleteFile(db, (CHOOSE f \in getFileByPath(db, p) : TRUE).fileId)
           ELSE db
  /\ lastOp' = Op("unlink", p, "done", db' = db)
  /\ UNCHANGED <<disk, chain, watch, job, query, go, java, glob>>

RECURSIVE deleteFiles(_, _)
deleteFiles(d, fileIds) ==
  IF fileIds = {} THEN d
  ELSE LET fileId == CHOOSE f \in fileIds : TRUE
       IN  deleteFiles(deleteFile(d, fileId), fileIds \ {fileId})

\* FileWatcher.handleDirectoryDelete, on the unlinkDir event of a removed directory
HandleDirectoryDelete(dirPath) ==
  /\ \A p \in Paths : inDirectory(p, dirPath) => disk[p] = 0
  /\ db' = deleteFiles(db, {f.fileId : f \in {x \in db.files : inDirectory(x.path, dirPath)}})
  /\ lastOp' = Op("unlinkDir", dirPath, "done", db' = db)
  /\ UNCHANGED <<disk, chain, watch, job, query, go, java, glob>>

RECURSIVE insertEmbeddings(_, _, _)
insertEmbeddings(d, symbolIds, model) ==
  IF symbolIds = {} THEN d
  ELSE LET symbolId == CHOOSE i \in symbolIds : TRUE
       IN  insertEmbeddings(insertEmbedding(d, symbolId, model), symbolIds \ {symbolId}, model)

\* CodeIndex.generateEmbeddings, every request succeeding: each symbol that
\* has no embedding for the model gets one
GenerateEmbeddings ==
  LET needing == {s.symbolId : s \in db.symbols} \ {e.symbolId : e \in db.embeddings}
  IN  /\ needing # {}
      /\ db' = insertEmbeddings(db, needing, "m")
      /\ lastOp' = Op("embed", NoPath, "done", FALSE)
      /\ UNCHANGED <<disk, chain, watch, job, query, go, java, glob>>

Next ==
  \/ \E p \in Paths, c \in Contents : WriteFile(p, c)
  \/ \E p \in Paths : RemoveFile(p)
  \/ \E p \in Paths, fail \in FailKinds : IndexFile(p, fail)
  \/ \E files \in scanFiles(disk) : \E fails \in FailPlans(db, disk, files) : IndexAll(files, fails)
  \/ \E files \in scanFiles(disk) : \E fails \in FailPlans(clearAll(db), disk, files) : Rebuild(files, fails)
  \/ \E p \in Paths : HandleFileDelete(p)
  \/ \E dirPath \in Dirs : HandleDirectoryDelete(dirPath)
  \/ GenerateEmbeddings

\* no summarizeAll or generateAll run
NoJob == [pc |-> "idle"]

\* no query asked of the query engine
NoQuery == [pc |-> "idle"]

\* no Go index created
NoGo == [pc |-> "idle"]

\* no Java file handed to the extractor
NoJava == [pc |-> "idle"]

\* no event seen by the include filter of the watcher
NoGlob == [pc |-> "idle"]

ChainIdle ==
  [pc |-> "idle", from |-> 0, direction |-> "forward", depth |-> 0, maxDepth |-> 0,
   visited |-> {}, nodes |-> <<>>, stack |-> <<>>, steps |-> 0]

\* the fields of a FileWatcher after construction; phase "off": not started
NewWatcher(minChangeLines) ==
  [phase |-> "off", minChangeLines |-> minChangeLines,
   debounceTimers |-> [p \in Paths |-> "none"],
   orphans |-> [p \in Paths |-> 0],
   suspended |-> [p \in Paths |-> 0],
   pendingIndexQueue |-> <<>>,
   batchTimer |-> 0, timers |-> <<>>,
   fileStats |-> [p \in Paths |-> -1],
   fresh |-> [p \in Paths |-> FALSE],
   indexed |-> <<>>]

Init ==
  /\ StoreInit
  /\ chain = ChainIdle
  /\ watch = NewWatcher(0)
  /\ job = NoJob
  /\ query = NoQuery
  /\ go = NoGo
  /\ java = NoJava
  /\ glob = NoGlob

Spec == Init /\ [][Next]_vars

---------------------------------------------------------------------------
(* QueryEngine.buildCallChain, one call of buildNode or one return a step  *)

\* the depth used when options.depth is falsy
DefaultDepth == 5
\* options.depth left undefined
NoDepth == -1
DepthOptions == {NoDepth, DefaultDepth} \cup (0..MaxDepthOption)
Directions == {"forward", "backward"}

\* options.depth || 5
maxDepthOf(depth) == IF depth = NoDepth \/ depth = 0 THEN DefaultDepth ELSE depth

getCallsFrom(d, callerSymbolId) ==
  InIdOrder({c.callId : c \in {x \in d.calls : x.callerSymbolId = callerSymbolId}})

getCallsTo(d, calleeSymbolId) ==
  InIdOrder({c.callId : c \in {x \in d.calls : x.calleeSymbolId = calleeSymbolId}})

\* symbols JOIN files
getSymbolLocation(d, symbolId) ==
  {s \in d.symbols : s.symbolId = symbolId /\ \E f \in d.files : f.fileId = s.fileId}

callById(d, callId) == CHOOSE c \in d.calls : c.callId = callId

\* buildNode with no visited set
rejectsByDepthOnly(symbolId, depth, maxDepth, visited) == depth > maxDepth

\* the early return of buildNode
rejects(symbolId, depth, maxDepth, visited) == depth > maxDepth \/ symbolId \in visited

relatedCalls(d, direction, symbolId) ==
  IF direction = "forward" THEN getCallsFrom(d, symbolId) ELSE getCallsTo(d, symbolId)

nextSymbolId(d, direction, callId) ==
  IF direction = "forward" THEN callById(d, callId).calleeSymbolId
  ELSE callById(d, callId).callerSymbolId

\* buildNode(symbolId, depth) called for the node with index parent (0: the root)
buildNode(ch, d, symbolId, depth, parent) ==
  IF rejects(symbolId, depth, ch.maxDepth, ch.visited) THEN ch
  ELSE IF getSymbolById(d, symbolId) = {} \/ getSymbolLocation(d, symbolId) = {}
  THEN [ch EXCEPT !.visited = @ \cup {symbolId}]
  ELSE [ch EXCEPT !.visited = @ \cup {symbolId},
                  !.nodes = Append(@, [symbolId |-> symbolId, depth |-> depth,
                                       parent |-> parent]),
                  !.stack = Append(@, [node |-> Len(ch.nodes) + 1,
                                       calls |-> relatedCalls(d, ch.direction, symbolId)])]

\* a database holding one file with a call graph over f1, f2, f3
GraphMasks == {m \in 0..511 :
                 Cardinality({k \in 0..8 : (m \div (2 ^ k)) % 2 = 1}) <= MaxChainCalls}

ChainInit ==
  /\ \E m \in GraphMasks :
       /\ disk = [p \in Paths |-> IF p = PathA THEN GraphBase + m ELSE 0]
       /\ db = indexFile(EmptyDb, disk, PathA, "none").db
  /\ lastOp = Op("init", NoPath, "done", TRUE)
  /\ chain = ChainIdle
  /\ watch = NewWatcher(0)
  /\ job = NoJob
  /\ query = NoQuery
  /\ go = NoGo
  /\ java = NoJava
  /\ glob = NoGlob

\* buildCallChain up to the first call of buildNode
BuildCallChain(from, direction, depth) ==
  /\ chain.pc = "idle"
  /\ LET ch == [ChainIdle EXCEPT !.from = from, !.direction = direction,
                                 !.depth = depth, !.maxDepth = maxDepthOf(depth)]
     IN  IF getSymbolById(db, from) = {} \/ getSymbolLocation(db, from) = {}
         THEN chain' = [ch EXCEPT !.pc = "done"]
         ELSE LET started == buildNode(ch, db, from, 0, 0)
              IN  chain' = [started EXCEPT !.pc = IF started.stack = <<>> THEN "done"
                                                  ELSE "walk"]
  /\ UNCHANGED <<disk, db, lastOp, watch, job, query, go, java, glob>>

\* one iteration of the loop over calls of the innermost buildNode
VisitCall ==
  /\ chain.pc = "walk"
  /\ LET top == chain.stack[Len(chain.stack)]
     IN  /\ top.calls # <<>>
         /\ LET rest == [chain EXCEPT !.stack[Len(chain.stack)].calls = Tail(@),
                                      !.steps = @ + 1]
                node == chain.nodes[top.node]
            IN  chain' = buildNode(rest, db, nextSymbolId(db, chain.direction, Head(top.calls)),
                                   node.depth + 1, top.node)
  /\ UNCHANGED <<disk, db, lastOp, watch, job, query, go, java, glob>>

\* the innermost buildNode returns its node
ReturnNode ==
  /\ chain.pc = "walk"
  /\ chain.stack[Len(chain.stack)].calls = <<>>
  /\ chain' = [chain EXCEPT !.stack = SubSeq(@, 1, Len(@) - 1),
                            !.steps = @ + 1,
                            !.pc = IF Len(chain.stack) = 1 THEN "done" ELSE "walk"]
  /\ UNCHANGED <<disk, db, lastOp, watch, job, query, go, java, glob>>

ChainNext ==
  \/ \E from \in ChainSymbols \cup {0}, direction \in Directions, depth \in DepthOptions :
       BuildCallChain(from, direction, depth)
  \/ VisitCall
  \/ ReturnNode

ChainSpec == ChainInit /\ [][ChainNext]_vars

\* a database holding one file with a call graph over f1, f2, f3, f4
DiamondMasks == 0..(2 ^ Len(DiamondPairs) - 1)

DiamondInit ==
  /\ \E m \in DiamondMasks :
       /\ disk = [p \in Paths |-> IF p = PathA THEN DiamondBase + m ELSE 0]
       /\ db = indexFile(EmptyDb, disk, PathA, "none").db
  /\ lastOp = Op("init", NoPath, "done", TRUE)
  /\ chain = ChainIdle
  /\ watch = NewWatcher(0)
  /\ job = NoJob
  /\ query = NoQuery
  /\ go = NoGo
  /\ java = NoJava
  /\ glob = NoGlob

DiamondNext ==
  \/ \E from \in DiamondSymbols \cup {0}, direction \in Directions, depth \in DepthOptions :
       BuildCallChain(from, direction, depth)
  \/ VisitCall
  \/ ReturnNode

DiamondSpec == DiamondInit /\ [][DiamondNext]_vars

\* the children of node i of the returned tree, in order
childrenOf(i) ==
  LET idx == {k \in 1..Len(chain.nodes) : chain.nodes[k].parent = i}
  IN  [k \in 1..Cardinality(idx) |-> chain.nodes[InIdOrder(idx)[k]].symbolId]

---------------------------------------------------------------------------
(* FileWatcher and the signal handler of CodeIndex.watch. One step is one  *)
(* callback of the event loop together with the promise continuations it   *)
(* schedules: indexFile never suspends, so an awaited call to it is        *)
(* continued before any other callback runs. The await import('fs') of     *)
(* shouldIndexFile is the one point where other callbacks may come first.  *)

\* minChangeLines when CodeIndex.watch is given none
DefaultMinChangeLines == 5
\* batchIntervalMs, in ticks of the model's clock
BatchIntervalMs == 2
\* the most debounce timers and suspended callbacks of one path at a time
MaxTimersPerPath == 2
\* the files change while the symbol counter of the store is below this cap
MaxWatchSymbolId == 2

\* the contents written while the watcher runs
WatchContents == {1}

MinChangeLinesOptions == {0, DefaultMinChangeLines}

\* content.split('\n').length
lineCount(c) == IF c = 1 THEN 3 ELSE IF c = 2 \/ c = 3 THEN 9 ELSE 1

Range(seq) == {seq[i] : i \in 1..Len(seq)}

noFailure == [p \in Paths |-> "none"]

\* the timers and suspended callbacks of a path that the runtime holds
timersOf(w, p) ==
  (IF w.debounceTimers[p] = "armed" THEN 1 ELSE 0) + w.orphans[p] + w.suspended[p]

\* debounceIndex: the armed timer of the map entry is cleared, a new timer is
\* armed and stored under the path
debounceIndex(w, p) == [w EXCEPT !.debounceTimers[p] = "armed"]

\* shouldIndexFile with a line difference equal to minChangeLines dropped
shouldIndexFileAbove(w, dk, p) ==
  IF w.minChangeLines = 0 THEN [result |-> TRUE, watch |-> w]
  ELSE IF dk[p] = 0 THEN [result |-> TRUE, watch |-> w]
  ELSE IF w.fileStats[p] = -1
  THEN [result |-> TRUE,
        watch |-> [w EXCEPT !.fileStats[p] = lineCount(dk[p]), !.fresh[p] = TRUE]]
  ELSE IF w.fresh[p] THEN [result |-> FALSE, watch |-> w]
  ELSE LET newLines == lineCount(dk[p])
           oldLines == w.fileStats[p]
           lineDiff == IF newLines >= oldLines THEN newLines - oldLines
                       ELSE oldLines - newLines
       IN  [result |-> lineDiff > w.minChangeLines,
            watch |-> [w EXCEPT !.fileStats[p] = newLines, !.fresh[p] = TRUE]]

\* shouldIndexFile after the import: the result and the file stats it leaves
shouldIndexFile(w, dk, p) ==
  IF w.minChangeLines = 0 THEN [result |-> TRUE, watch |-> w]
  ELSE IF dk[p] = 0 THEN [result |-> TRUE, watch |-> w]
  ELSE IF w.fileStats[p] = -1
  THEN [result |-> TRUE,
        watch |-> [w EXCEPT !.fileStats[p] = lineCount(dk[p]), !.fresh[p] = TRUE]]
  ELSE IF w.fresh[p] THEN [result |-> FALSE, watch |-> w]
  ELSE LET newLines == lineCount(dk[p])
           oldLines == w.fileStats[p]
           lineDiff == IF newLines >= oldLines THEN newLines - oldLines
                       ELSE oldLines - newLines
       IN  [result |-> lineDiff >= w.minChangeLines,
            watch |-> [w EXCEPT !.fileStats[p] = newLines, !.fresh[p] = TRUE]]

\* scheduleBatchIndex without the test of this.batchTimer
scheduleBatchIndexAlways(w) ==
  [w EXCEPT !.timers = Append(@, BatchIntervalMs), !.batchTimer = Len(w.timers) + 1]

scheduleBatchIndex(w) ==
  IF w.batchTimer # 0 THEN w
  ELSE [w EXCEPT !.timers = Append(@, BatchIntervalMs), !.batchTimer = Len(w.timers) + 1]

\* Set.add keeps the insertion order and the first position of a member
setAdd(queue, p) == IF p \in Range(queue) THEN queue ELSE Append(queue, p)

\* the timer callback of debounceIndex from the result of shouldIndexFile on:
\* enqueue and schedule, and the finally block that deletes the map entry of
\* the path, whichever timer it holds
afterThreshold(w, dk, p) ==
  LET checked == shouldIndexFile(w, dk, p)
      queued == IF checked.result
                THEN scheduleBatchIndex(
                       [checked.watch EXCEPT !.pendingIndexQueue = setAdd(@, p)])
                ELSE checked.watch
  IN  [queued EXCEPT !.orphans[p] = IF w.debounceTimers[p] = "armed" THEN @ + 1 ELSE @,
                     !.debounceTimers[p] = "none",
                     !.indexed = <<>>]

\* processPendingIndexQueue: the queue is copied and cleared, and indexFile is
\* called on the first n paths of the copy
processPendingIndexQueue(w, d, dk, n) ==
  LET filesToIndex == w.pendingIndexQueue
      reached == SubSeq(filesToIndex, 1, n)
  IN  [watch |-> [w EXCEPT !.pendingIndexQueue = <<>>,
                           !.indexed = reached],
       db |-> indexAll(d, dk, reached, 1, noFailure)]

removeAt(seq, i) == SubSeq(seq, 1, i - 1) \o SubSeq(seq, i + 1, Len(seq))

\* FileWatcher.stop with indexFile called on the first n pending paths; indexed records the paths passed to indexFile
stop(w, d, dk, n) ==
  IF w.phase # "watching"
  THEN [watch |-> [w EXCEPT !.indexed = <<>>], db |-> d]
  ELSE processPendingIndexQueue(
         [w EXCEPT !.phase = "stopped",
                   !.debounceTimers = [p \in Paths |-> "none"],
                   !.timers = IF w.batchTimer # 0 THEN removeAt(@, w.batchTimer) ELSE @,
                   !.batchTimer = 0],
         d, dk, n)

Min(a, b) == IF a <= b THEN a ELSE b

WatchInit ==
  /\ StoreInit
  /\ chain = ChainIdle
  /\ \E minChangeLines \in MinChangeLinesOptions :
       watch = [NewWatcher(minChangeLines) EXCEPT !.phase = "watching"]
  /\ job = NoJob
  /\ query = NoQuery
  /\ go = NoGo
  /\ java = NoJava
  /\ glob = NoGlob

\* a file is written, with new content or the same; chokidar reports add or
\* change while the watcher is open
FileWritten(p, c) ==
  /\ watch.phase \in {"watching", "stopped"}
  /\ db.seq.symbols < MaxWatchSymbolId
  /\ watch.orphans[p] + watch.suspended[p] < MaxTimersPerPath
  /\ disk' = [disk EXCEPT ![p] = c]
  /\ watch' = LET touched == [watch EXCEPT !.fresh[p] = FALSE,
                                           !.indexed = <<>>]
              IN  IF watch.phase = "watching" THEN debounceIndex(touched, p) ELSE touched
  /\ UNCHANGED <<db, lastOp, chain, job, query, go, java, glob>>

\* a file is removed; the unlink handler runs while the watcher is open
FileUnlinked(p) ==
  /\ watch.phase \in {"watching", "stopped"}
  /\ disk[p] # 0
  /\ db.seq.symbols < MaxWatchSymbolId
  /\ disk' = [disk EXCEPT ![p] = 0]
  /\ db' = IF watch.phase = "watching" /\ getFileByPath(db, p) # {}
           THEN deleteFile(db, (CHOOSE f \in getFileByPath(db, p) : TRUE).fileId)
           ELSE db
  /\ watch' = [watch EXCEPT !.fresh[p] = FALSE,
                            !.indexed = <<>>]
  /\ UNCHANGED <<lastOp, chain, job, query, go, java, glob>>

\* the debounce timer of the map entry fires
DebounceFires(p) ==
  /\ watch.phase \in {"watching", "stopped"}
  /\ watch.debounceTimers[p] = "armed"
  /\ watch' = IF watch.minChangeLines = 0
              THEN afterThreshold([watch EXCEPT !.debounceTimers[p] = "fired"], disk, p)
              ELSE [watch EXCEPT !.debounceTimers[p] = "fired",
                                 !.suspended[p] = @ + 1,
                                 !.indexed = <<>>]
  /\ UNCHANGED <<disk, db, lastOp, chain, job, query, go, java, glob>>

\* a debounce timer that the map no longer holds fires
OrphanFires(p) ==
  /\ watch.phase \in {"watching", "stopped"}
  /\ watch.orphans[p] > 0
  /\ watch' = [watch EXCEPT !.orphans[p] = @ - 1,
                            !.suspended[p] = @ + 1,
                            !.indexed = <<>>]
  /\ UNCHANGED <<disk, db, lastOp, chain, job, query, go, java, glob>>

\* a callback suspended in shouldIndexFile goes on
DebounceResumes(p) ==
  /\ watch.phase \in {"watching", "stopped"}
  /\ watch.suspended[p] > 0
  /\ watch' = afterThreshold([watch EXCEPT !.suspended[p] = @ - 1], disk, p)
  /\ UNCHANGED <<disk, db, lastOp, chain, job, query, go, java, glob>>

\* time passes while no batch timer is due
Tick ==
  /\ watch.phase \in {"watching", "stopped"}
  /\ watch.timers # <<>>
  /\ \A i \in 1..Len(watch.timers) : watch.timers[i] > 0
  /\ watch' = [watch EXCEPT !.timers = [i \in 1..Len(@) |-> @[i] - 1],
                            !.indexed = <<>>]
  /\ UNCHANGED <<disk, db, lastOp, chain, job, query, go, java, glob>>

\* the callback of a batch timer: processPendingIndexQueue, batchTimer = null
BatchFires(i) ==
  /\ watch.phase \in {"watching", "stopped"}
  /\ i \in 1..Len(watch.timers)
  /\ watch.timers[i] = 0
  /\ LET done == processPendingIndexQueue(watch, db, disk,
                                          Len(watch.pendingIndexQueue))
     IN  /\ watch' = [done.watch EXCEPT !.timers = removeAt(@, i), !.batchTimer = 0]
         /\ db' = done.db
  /\ UNCHANGED <<disk, lastOp, chain, job, query, go, java, glob>>

\* CodeIndex.stopWatching: stop, and the process goes on
StopWatching ==
  /\ watch.phase = "watching"
  /\ LET done == stop(watch, db, disk, Len(watch.pendingIndexQueue))
     IN  /\ watch' = done.watch
         /\ db' = done.db
  /\ UNCHANGED <<disk, lastOp, chain, job, query, go, java, glob>>

\* the SIGINT/SIGTERM handler of CodeIndex.watch: stop, then process.exit(0)
\* before any continuation runs; the timers and the fields of the watcher end
\* with the process
Cleanup ==
  /\ watch.phase \in {"watching", "stopped"}
  /\ LET done == stop(watch, db, disk, Min(1, Len(watch.pendingIndexQueue)))
     IN  /\ watch' = [NewWatcher(watch.minChangeLines) EXCEPT
                        !.phase = "exited", !.indexed = done.watch.indexed]
         /\ db' = done.db
  /\ UNCHANGED <<disk, lastOp, chain, job, query, go, java, glob>>

WatchNext ==
  \/ \E p \in Paths, c \in WatchContents : FileWritten(p, c)
  \/ \E p \in Paths : FileUnlinked(p)
  \/ \E p \in Paths : DebounceFires(p)
  \/ \E p \in Paths : OrphanFires(p)
  \/ \E p \in Paths : DebounceResumes(p)
  \/ Tick
  \/ \E i \in 1..Len(watch.timers) : BatchFires(i)
  \/ StopWatching
  \/ Cleanup

WatchSpec == WatchInit /\ [][WatchNext]_vars

---------------------------------------------------------------------------
(* ChunkSummarizer.summarizeAll and EmbeddingsGenerator.generateAll. Both  *)
(* split the symbols that need processing into batches and await           *)
(* Promise.all over one batch at a time. One step is one callback of the   *)
(* event loop: a response arrives, a back-off sleep ends, or the           *)
(* continuation of the awaited Promise.all runs.                           *)

\* the most symbols that need a summary or an embedding
MaxJobSymbols == 3
\* the largest concurrency and maxRetries a caller configures
MaxConcurrency == 2
MaxRetriesOption == 2

\* concurrency and maxRetries when the options give none
DefaultConcurrency == 5
DefaultMaxRetries == 3

\* an option the caller left out
NoOption == -1

JobKinds == {"summarize", "embed"}
ConcurrencyOptions == {NoOption} \cup (0..MaxConcurrency)
RetriesOptions == {NoOption} \cup (0..MaxRetriesOption)

\* the constructors: ChunkSummarizer spreads the caller's options over the
\* defaults, EmbeddingsGenerator takes the default for every falsy value
optionOf(kind, value, default) ==
  IF value = NoOption THEN default
  ELSE IF kind = "embed" /\ value = 0 THEN default
  ELSE value

\* createBatches with one batch for all the items
createBatchesAsOne(items, batchSize) ==
  IF items = <<>> THEN <<>> ELSE <<items>>

RECURSIVE createBatches(_, _)
createBatches(items, batchSize) ==
  IF items = <<>> THEN <<>>
  ELSE LET n == Min(batchSize, Len(items))
       IN  <<SubSeq(items, 1, n)>> \o
           createBatches(SubSeq(items, n + 1, Len(items)), batchSize)

\* the symbols of the batch the run is awaiting
currentBatch(j) == IF j.batch = 0 THEN {} ELSE Range(j.batches[j.batch])

\* the requests the runtime has sent and not yet heard from
inFlight(j) == {s \in Range(j.symbols) : j.status[s] = "inflight"}

\* the callback of batch.map lets the error go: Promise.all rejects and the
\* run throws
rethrowError(j, s) == [j EXCEPT !.status[s] = "rejected", !.pc = "thrown"]

\* the catch block of the callback of batch.map: the promise of the symbol is
\* fulfilled with a result that carries the error
catchError(j, s) == [j EXCEPT !.status[s] = "error"]

\* callLLM and callEmbeddingAPI from the top of the retry loop, attempts being
\* the loop counter, which counts the failed requests: a request is sent
\* while attempts remain, and the last error is thrown when none does
callAPI(j, s) ==
  IF j.attempts[s] < j.maxRetries
  THEN [j EXCEPT !.status[s] = "inflight", !.requests[s] = @ + 1]
  ELSE catchError(j, s)

\* the callback of batch.map up to its first await: summarizeSymbol and
\* generateSymbol throw before any request for a symbol without a location,
\* a readable file or a text
RECURSIVE mapBatch(_, _, _)
mapBatch(j, batch, i) ==
  IF i > Len(batch) THEN j
  ELSE LET s == batch[i]
       IN  mapBatch(IF s = j.throwing THEN catchError(j, s) ELSE callAPI(j, s),
                    batch, i + 1)

\* one turn of the for loop over the batches up to the await of Promise.all,
\* or the return after the last batch
nextBatch(j) ==
  IF j.batch = Len(j.batches) THEN [j EXCEPT !.pc = "returned"]
  ELSE mapBatch([j EXCEPT !.batch = @ + 1], j.batches[j.batch + 1], 1)

\* the result of Promise.all: one entry per symbol of the batch, in the order
\* of the batch
batchResults(j) ==
  [i \in 1..Len(j.batches[j.batch]) |->
     [symbolId |-> j.batches[j.batch][i],
      error |-> j.status[j.batches[j.batch][i]] = "error"]]

JobInit ==
  /\ StoreInit
  /\ chain = ChainIdle
  /\ watch = NewWatcher(0)
  /\ job = NoJob
  /\ query = NoQuery
  /\ go = NoGo
  /\ java = NoJava
  /\ glob = NoGlob

\* summarizeAll and generateAll up to the first await: n symbols need
\* processing; the symbol throwing, if any, fails before its request
StartAll(kind, n, throwing, concurrencyOption, retriesOption) ==
  /\ job.pc = "idle"
  /\ throwing <= n
  /\ LET symbols == [i \in 1..n |-> i]
         concurrency == optionOf(kind, concurrencyOption, DefaultConcurrency)
         started == [pc |-> "running", kind |-> kind, symbols |-> symbols,
                     throwing |-> throwing,
                     concurrency |-> concurrency,
                     retriesOption |-> retriesOption,
                     maxRetries |-> optionOf(kind, retriesOption, DefaultMaxRetries),
                     batches |-> <<>>, batch |-> 0,
                     status |-> [s \in 1..n |-> "pending"],
                     attempts |-> [s \in 1..n |-> 0],
                     requests |-> [s \in 1..n |-> 0],
                     sleeps |-> [s \in 1..n |-> <<>>],
                     results |-> <<>>]
     IN  job' = IF n = 0 THEN [started EXCEPT !.pc = "returned"]
                ELSE IF concurrency = 0 THEN [started EXCEPT !.pc = "diverged"]
                ELSE nextBatch([started EXCEPT
                                  !.batches = createBatches(symbols, concurrency)])
  /\ UNCHANGED <<disk, db, lastOp, chain, watch, query, go, java, glob>>

\* the delay of the sleep with one second after every failure
backoffConstant(attempt) == 1

\* the delay of the sleep after the failure of an attempt (counted from 0),
\* in seconds: 1000 * (attempt + 1) ms
backoff(attempt) == attempt + 1

\* the response of a request is a usable answer
RequestSucceeds(s) ==
  /\ job.pc = "running"
  /\ s \in inFlight(job)
  /\ job' = [job EXCEPT !.status[s] = "ok"]
  /\ UNCHANGED <<disk, db, lastOp, chain, watch, query, go, java, glob>>

\* a request fails: the back-off sleep while attempts remain, and else the
\* throw after the loop
RequestFails(s) ==
  /\ job.pc = "running"
  /\ s \in inFlight(job)
  /\ job' = LET failed == [job EXCEPT !.attempts[s] = @ + 1]
            IN  IF failed.attempts[s] < failed.maxRetries
                THEN [failed EXCEPT !.status[s] = "sleeping",
                                    !.sleeps[s] = Append(@, backoff(failed.attempts[s] - 1))]
                ELSE callAPI(failed, s)
  /\ UNCHANGED <<disk, db, lastOp, chain, watch, query, go, java, glob>>

\* the back-off sleep ends and the loop sends the next request
SleepEnds(s) ==
  /\ job.pc = "running"
  /\ s \in Range(job.symbols)
  /\ job.status[s] = "sleeping"
  /\ job' = callAPI(job, s)
  /\ UNCHANGED <<disk, db, lastOp, chain, watch, query, go, java, glob>>

\* every promise of the batch is fulfilled: results.push(...batchResults) and
\* the next turn of the loop
BatchSettles ==
  /\ job.pc = "running"
  /\ job.batch # 0
  /\ \A s \in currentBatch(job) : job.status[s] \in {"ok", "error"}
  /\ job' = nextBatch([job EXCEPT !.results = @ \o batchResults(job)])
  /\ UNCHANGED <<disk, db, lastOp, chain, watch, query, go, java, glob>>

JobNext ==
  \/ \E kind \in JobKinds, n \in 0..MaxJobSymbols, throwing \in 0..MaxJobSymbols,
        concurrencyOption \in ConcurrencyOptions, retriesOption \in RetriesOptions :
       StartAll(kind, n, throwing, concurrencyOption, retriesOption)
  \/ \E s \in 1..MaxJobSymbols : RequestSucceeds(s)
  \/ \E s \in 1..MaxJobSymbols : RequestFails(s)
  \/ \E s \in 1..MaxJobSymbols : SleepEnds(s)
  \/ BatchSettles

JobSpec == JobInit /\ [][JobNext]_vars

\* the event loop runs a callback whenever one is due: a response arrives
\* for a request sent, the timer of a sleep fires, or the continuation of a
\* settled Promise.all runs
JobProgress ==
  \/ \E s \in 1..MaxJobSymbols : RequestSucceeds(s) \/ RequestFails(s) \/ SleepEnds(s)
  \/ BatchSettles

JobLiveSpec == JobSpec /\ WF_vars(JobProgress)

---------------------------------------------------------------------------
(* QueryEngine.findSymbol and findSymbols. The store is one that indexAll  *)
(* has built from an empty store; a query leaves the store alone, so one   *)
(* query per store is followed, and its answer is kept in query.           *)

\* the contents of the files of the queried tree
QueryContents == {1, 2, 3}

\* the options of a query; the empty string stands for an option left out,
\* which the tests of the code (if (language), if (options.inFile),
\* if (options.kind)) take for one
QueryNames == {"f", "g", "h"}
QueryLanguages == {"", "ts", "go"}
InFileOptions == {<<>>, <<"a">>, <<"d">>, <<"d", "2">>, <<"x">>}
QueryKinds == {"", "function", "method"}

QuerySymbolOptions ==
  [name : QueryNames, language : QueryLanguages, inFile : InFileOptions,
   kind : QueryKinds]

\* String.prototype.includes
includes(path, sub) ==
  \E i \in 1..(Len(path) - Len(sub) + 1) : SubSeq(path, i, i + Len(sub) - 1) = sub

\* CodeDatabase.findSymbolsByName with the optional language: the rows in
\* the order of the scan, which is the order of the row ids
findSymbolsByNameAndLanguage(d, name, language) ==
  LET ids == findSymbolsByName(d, name)
      rows == [i \in 1..Len(ids) |-> CHOOSE s \in d.symbols : s.symbolId = ids[i]]
      hasLanguage(s) == s.language = language
  IN  IF language = "" THEN rows ELSE SelectSeq(rows, hasLanguage)

\* the path of the file of a symbol row; the empty path when the join of
\* getSymbolLocation finds none
pathOf(d, symbol) ==
  IF getSymbolLocation(d, symbol.symbolId) = {} THEN <<>>
  ELSE (CHOOSE f \in d.files : f.fileId = symbol.fileId).path

\* QueryEngine.findSymbol: the sequence of the symbol returned, empty for null
findSymbol(d, options) ==
  LET symbols == findSymbolsByNameAndLanguage(d, options.name, options.language)
      inTheFile(s) == includes(pathOf(d, s), options.inFile)
      ofTheKind(s) == s.kind = options.kind
      fileFiltered == SelectSeq(symbols, inTheFile)
      kindFiltered == SelectSeq(symbols, ofTheKind)
  IN  IF Len(symbols) = 0 THEN <<>>
      ELSE IF Len(symbols) > 1 /\ options.inFile # <<>> /\ Len(fileFiltered) > 0
           THEN <<fileFiltered[1]>>
      ELSE IF Len(symbols) > 1 /\ options.kind # "" /\ Len(kindFiltered) > 0
           THEN <<kindFiltered[1]>>
      ELSE <<symbols[1]>>

\* QueryEngine.findSymbols
findSymbols(d, options) ==
  findSymbolsByNameAndLanguage(d, options.name, options.language)

QueryInit ==
  /\ \E dk \in [Paths -> {0} \cup QueryContents] :
       /\ disk = dk
       /\ \E files \in scanFiles(dk) : db = indexAll(EmptyDb, dk, files, 1, noFailure)
  /\ lastOp = Op("init", NoPath, "done", TRUE)
  /\ chain = ChainIdle
  /\ watch = NewWatcher(0)
  /\ job = NoJob
  /\ query = NoQuery
  /\ go = NoGo
  /\ java = NoJava
  /\ glob = NoGlob

FindSymbol(options) ==
  /\ query.pc = "idle"
  /\ query' = [pc |-> "answered", op |-> "findSymbol", options |-> options,
               result |-> findSymbol(db, options)]
  /\ UNCHANGED <<disk, db, lastOp, chain, watch, job, go, java, glob>>

FindSymbols(options) ==
  /\ query.pc = "idle"
  /\ query' = [pc |-> "answered", op |-> "findSymbols", options |-> options,
               result |-> findSymbols(db, options)]
  /\ UNCHANGED <<disk, db, lastOp, chain, watch, job, go, java, glob>>

QueryNext ==
  \/ \E options \in QuerySymbolOptions : FindSymbol(options)
  \/ \E options \in QuerySymbolOptions : FindSymbols(options)

QuerySpec == QueryInit /\ [][QueryNext]_vars

---------------------------------------------------------------------------
(* CodeIndex.semanticSearch and QueryEngine.semanticSearch. Vectors are    *)
(* the outputs of normalizeVector, their components counted in fifths, so  *)
(* that a dot product is a number of twenty-fifths and a similarity        *)
(* (dotProduct + 1) / 2 a number of fiftieths.                             *)

\* the components of a vector of length one are fifths
UnitScale == 5
\* a similarity of one, in fiftieths
SimilarityOne == 2 * UnitScale * UnitScale

\* topK and minSimilarity (0.7) when the options give none
DefaultTopK == 10
DefaultMinSimilarity == 35

\* normalized vectors of dimension 2 and 1, and the zero vector, which
\* normalizeVector returns as it is
Vectors == {<<5, 0>>, <<0, 5>>, <<-5, 0>>, <<3, 4>>, <<-3, -4>>, <<0, 0>>, <<5>>}

\* an embedding of the model, or none, for each symbol
NoVector == <<>>

TopKOptions == {NoOption, 0, 1, 2}
MinSimilarityOptions == {NoOption, 0, 25, 45}

\* generateSymbol: db.insertEmbedding with the normalized vector
storeEmbedding(d, symbolId, model, embedding) ==
  [d EXCEPT !.embeddings = @ \cup {[symbolId |-> symbolId, model |-> model,
                                    dim |-> Len(embedding), embedding |-> embedding]}]

RECURSIVE storeEmbeddings(_, _, _, _)
storeEmbeddings(d, vectorOf, symbolId, model) ==
  IF symbolId > d.seq.symbols THEN d
  ELSE storeEmbeddings(IF vectorOf[symbolId] = NoVector THEN d
                       ELSE storeEmbedding(d, symbolId, model, vectorOf[symbolId]),
                       vectorOf, symbolId + 1, model)

\* CodeDatabase.getEmbeddingsByModel: the rows of the model joined with their
\* symbols, in the order of the symbol ids
getEmbeddingsByModel(d, model) ==
  LET ids == InIdOrder({e.symbolId : e \in {x \in d.embeddings : x.model = model
                                             /\ getSymbolById(d, x.symbolId) # {}}})
  IN  [i \in 1..Len(ids) |-> CHOOSE e \in d.embeddings : e.symbolId = ids[i] /\ e.model = model]

RECURSIVE dotProduct(_, _, _)
dotProduct(a, b, i) ==
  IF i > Len(a) THEN 0 ELSE a[i] * b[i] + dotProduct(a, b, i + 1)

\* (dotProduct + 1) / 2
similarityOf(a, b) == dotProduct(a, b, 1) + UnitScale * UnitScale

\* the loop over the candidates: the results pushed, in candidate order
RECURSIVE scoreCandidates(_, _, _, _, _)
scoreCandidates(d, candidates, i, normalizedQuery, minSimilarity) ==
  IF i > Len(candidates) THEN <<>>
  ELSE LET candidate == candidates[i]
           rest == scoreCandidates(d, candidates, i + 1, normalizedQuery, minSimilarity)
       IN  IF Len(candidate.embedding) # Len(normalizedQuery) THEN rest
           ELSE IF similarityOf(normalizedQuery, candidate.embedding) >= minSimilarity
                   /\ getSymbolById(d, candidate.symbolId) # {}
                   /\ getSymbolLocation(d, candidate.symbolId) # {}
                THEN <<[symbolId |-> candidate.symbolId,
                        similarity |-> similarityOf(normalizedQuery, candidate.embedding)]>>
                     \o rest
                ELSE rest

\* Array.prototype.sort with (a, b) => b.similarity - a.similarity: stable,
\* by descending similarity
RECURSIVE sortBySimilarity(_)
sortBySimilarity(results) ==
  IF results = <<>> THEN <<>>
  ELSE LET top == CHOOSE i \in 1..Len(results) :
                    /\ \A j \in 1..Len(results) : results[j].similarity <= results[i].similarity
                    /\ \A j \in 1..(i - 1) : results[j].similarity < results[i].similarity
       IN  <<results[top]>> \o sortBySimilarity(removeAt(results, top))

\* QueryEngine.semanticSearch
semanticSearch(d, normalizedQuery, model, topK, minSimilarity) ==
  LET candidates == getEmbeddingsByModel(d, model)
      results == scoreCandidates(d, candidates, 1, normalizedQuery, minSimilarity)
  IN  SubSeq(sortBySimilarity(results), 1, Min(topK, Len(results)))

\* options.topK || 10 and options.minSimilarity || 0.7 of
\* CodeIndex.semanticSearch
orDefault(value, default) == IF value = NoOption \/ value = 0 THEN default ELSE value

SearchInit ==
  /\ disk = [p \in Paths |-> IF p = PathA THEN 3 ELSE 1]
  /\ \E vectorOf \in [1..3 -> Vectors \cup {NoVector}] :
       db = storeEmbeddings(indexAll(EmptyDb, disk, <<PathA, PathB>>, 1, noFailure),
                            vectorOf, 1, "m")
  /\ lastOp = Op("init", NoPath, "done", TRUE)
  /\ chain = ChainIdle
  /\ watch = NewWatcher(0)
  /\ job = NoJob
  /\ query = NoQuery
  /\ go = NoGo
  /\ java = NoJava
  /\ glob = NoGlob

\* CodeIndex.semanticSearch with the normalized embedding of the query text
SemanticSearch(normalizedQuery, topK, minSimilarity) ==
  /\ query.pc = "idle"
  /\ query' = [pc |-> "answered", op |-> "semanticSearch",
               topK |-> topK, minSimilarity |-> minSimilarity,
               result |-> semanticSearch(db, normalizedQuery, "m",
                                         orDefault(topK, DefaultTopK),
                                         orDefault(minSimilarity, DefaultMinSimilarity))]
  /\ UNCHANGED <<disk, db, lastOp, chain, watch, job, go, java, glob>>

SearchNext ==
  \E normalizedQuery \in Vectors, topK \in TopKOptions,
     minSimilarity \in MinSimilarityOptions :
    SemanticSearch(normalizedQuery, topK, minSimilarity)

SearchSpec == SearchInit /\ [][SearchNext]_vars

---------------------------------------------------------------------------
(* GoExtractor.extractStructFields and an index over one Go file that is   *)
(* opened, re-indexed and closed again and again with a                    *)
(* maxNestedStructDepth of the caller's choice. The file declares one      *)
(* struct; a struct has at most a scalar field Data, a field Level whose   *)
(* type is an anonymous struct, and an embedded field Base.                *)

\* the deepest nesting of anonymous structs in the file
MaxNesting == 4
\* the largest maxNestedStructDepth a caller configures
MaxStructDepthOption == 2

\* maxNestedStructDepth when the options give none
DefaultNestedStructDepth == 3

StructDepthOptions == {NoOption} \cup (0..MaxStructDepthOption)

\* the struct types nested at most n deep; nested is empty or holds the
\* anonymous struct that is the type of Level
RECURSIVE StructsOfDepth(_)
StructsOfDepth(n) ==
  [data : BOOLEAN, embedded : BOOLEAN,
   nested : IF n = 0 THEN {<<>>}
            ELSE {<<>>} \cup {<<inner>> : inner \in StructsOfDepth(n - 1)}]

\* GoExtractor.constructor
GoExtractor(maxNestedStructDepth) ==
  IF maxNestedStructDepth # NoOption /\ maxNestedStructDepth >= 0
  THEN maxNestedStructDepth
  ELSE DefaultNestedStructDepth

Field(name, structName) ==
  [kind |-> "field", name |-> name, qualifiedName |-> Append(structName, name)]

\* extractStructFields with the nested struct entered at the limit too
RECURSIVE extractStructFieldsInclusive(_, _, _, _)
extractStructFieldsInclusive(structNode, structName, currentDepth, maxNestedStructDepth) ==
  (IF structNode.data THEN <<Field("Data", structName)>> ELSE <<>>)
  \o (IF structNode.nested = <<>> THEN <<>>
      ELSE <<Field("Level", structName)>>
           \o (IF currentDepth <= maxNestedStructDepth
               THEN extractStructFieldsInclusive(structNode.nested[1],
                                                 Append(structName, "Level"),
                                                 currentDepth + 1, maxNestedStructDepth)
               ELSE <<>>))
  \o (IF structNode.embedded THEN <<Field("Base", structName)>> ELSE <<>>)

\* GoExtractor.extractStructFields: the symbols pushed, in order
RECURSIVE extractStructFields(_, _, _, _)
extractStructFields(structNode, structName, currentDepth, maxNestedStructDepth) ==
  (IF structNode.data THEN <<Field("Data", structName)>> ELSE <<>>)
  \o (IF structNode.nested = <<>> THEN <<>>
      ELSE <<Field("Level", structName)>>
           \o (IF currentDepth < maxNestedStructDepth
               THEN extractStructFields(structNode.nested[1],
                                        Append(structName, "Level"),
                                        currentDepth + 1, maxNestedStructDepth)
               ELSE <<>>))
  \o (IF structNode.embedded THEN <<Field("Base", structName)>> ELSE <<>>)

\* the type declaration of the file: the struct symbol and its fields
extractTypeDeclaration(structNode, maxNestedStructDepth) ==
  <<[kind |-> "struct", name |-> "T", qualifiedName |-> <<"T">>]>>
  \o extractStructFields(structNode, <<"T">>, 0, maxNestedStructDepth)

GoInit ==
  /\ StoreInit
  /\ chain = ChainIdle
  /\ watch = NewWatcher(0)
  /\ job = NoJob
  /\ query = NoQuery
  /\ java = NoJava
  /\ glob = NoGlob
  /\ \E structNode \in StructsOfDepth(MaxNesting) :
       go = [pc |-> "closed", file |-> structNode, option |-> NoOption,
             maxNestedStructDepth |-> DefaultNestedStructDepth,
             files |-> {}, symbols |-> <<>>, extracted |-> <<>>, parsed |-> FALSE]

\* CodeIndex.create on the database file, with the option of the caller
Create(option) ==
  /\ go.pc = "closed"
  /\ go' = [go EXCEPT !.pc = "open", !.option = option,
                      !.maxNestedStructDepth = GoExtractor(option),
                      !.extracted = <<>>, !.parsed = FALSE]
  /\ UNCHANGED <<disk, db, lastOp, chain, watch, job, query, java, glob>>

\* CodeIndex.reindexAll: indexAll over the one file, whose contents never
\* change; indexFile skips it when the store has its row with the same hash
ReindexAll ==
  /\ go.pc = "open"
  /\ go' = IF ~needsReindex(go.files, hashContent(go.file))
           THEN [go EXCEPT !.pc = "indexed"]
           ELSE LET extraction == extractTypeDeclaration(go.file, go.maxNestedStructDepth)
                IN  [go EXCEPT !.pc = "indexed",
                               !.files = {[fileId |-> 1, language |-> "go",
                                           contentHash |-> hashContent(go.file)]},
                               !.symbols = extraction,
                               !.extracted = extraction, !.parsed = TRUE]
  /\ UNCHANGED <<disk, db, lastOp, chain, watch, job, query, java, glob>>

\* CodeIndex.close
Close ==
  /\ go.pc \in {"open", "indexed"}
  /\ go' = [go EXCEPT !.pc = "closed"]
  /\ UNCHANGED <<disk, db, lastOp, chain, watch, job, query, java, glob>>

GoNext ==
  \/ \E option \in StructDepthOptions : Create(option)
  \/ ReindexAll
  \/ Close

GoSpec == GoInit /\ [][GoNext]_vars

---------------------------------------------------------------------------
(* JavaExtractor.extractSymbols and extractClassMembers over a file that   *)
(* declares one top-level class, and the loop of Indexer.indexFile that    *)
(* stores the extracted symbols. A qualified name is the sequence of the   *)
(* parts its template joins with dots.                                     *)

\* the most members in the body of the top-level class
MaxMembers == 2

\* the declarations a class body holds apart from classes
Method(name, params) == [type |-> "method_declaration", name |-> name, params |-> params]
FieldDecl(name) == [type |-> "field_declaration", name |-> name]
Constructor(params) == [type |-> "constructor_declaration", params |-> params]
ClassDecl(name, body) == [type |-> "class_declaration", name |-> name, body |-> body]

SimpleMembers ==
  {Method(name, params) : name \in {"f", "g"}, params \in {"", "int"}}
  \cup {FieldDecl(name) : name \in {"f", "x"}}
  \cup {Constructor(params) : params \in {"", "int"}}

\* what javac takes as one class body: no two methods with the same name and
\* parameter types, no two constructors with the same parameter types, no
\* two fields and no two member classes with the same name
wellFormed(body) ==
  \A i, j \in 1..Len(body) : body[i] = body[j] => i = j

InnerClasses ==
  {ClassDecl("D", body) : body \in {<<>>} \cup {<<member>> : member \in SimpleMembers}}

Members == SimpleMembers \cup InnerClasses

RECURSIVE BodiesOfLength(_)
BodiesOfLength(n) ==
  IF n = 0 THEN {<<>>}
  ELSE {Append(body, member) : body \in BodiesOfLength(n - 1), member \in Members}

ClassBodies ==
  {body \in UNION {BodiesOfLength(n) : n \in 0..MaxMembers} : wellFormed(body)}

\* extractPackageName: the empty string without a package declaration
PackageNames == {<<>>, <<"p">>}

\* the text of the name node: a constructor carries the name of its class
nameOf(member, className) ==
  IF member.type = "constructor_declaration" THEN className[Len(className)]
  ELSE member.name

JavaSymbol(kind, name, scope) ==
  [kind |-> kind, name |-> name, qualifiedName |-> Append(scope, name)]

\* JavaExtractor.extractClassMembers: the symbols pushed for the members of
\* a class body from the i-th on, in order
RECURSIVE extractClassMembers(_, _, _)
extractClassMembers(classBody, i, className) ==
  IF i > Len(classBody) THEN <<>>
  ELSE LET member == classBody[i]
           name == nameOf(member, className)
       IN  (CASE member.type = "field_declaration" ->
                   <<JavaSymbol("field", name, className)>>
              [] member.type \in {"method_declaration", "constructor_declaration"} ->
                   <<JavaSymbol("method", name, className)>>
              [] member.type = "class_declaration" ->
                   <<JavaSymbol("class", name, className)>>
                   \o extractClassMembers(member.body, 1, Append(className, name)))
           \o extractClassMembers(classBody, i + 1, className)

\* JavaExtractor.extractSymbols on a node and then, with the same scope, on
\* its children: a class pushes itself and the members of its body, and the
\* walk then enters the body once more, where it knows methods and classes
RECURSIVE extractJavaSymbols(_, _)
RECURSIVE extractJavaChildren(_, _, _)
extractJavaSymbols(node, scope) ==
  CASE node.type = "class_declaration" ->
         <<JavaSymbol("class", node.name, scope)>>
         \o extractClassMembers(node.body, 1, Append(scope, node.name))
         \o extractJavaChildren(node.body, 1, scope)
    [] node.type = "method_declaration" ->
         <<JavaSymbol("method", node.name, scope)>>
    [] OTHER -> <<>>

extractJavaChildren(children, i, scope) ==
  IF i > Len(children) THEN <<>>
  ELSE extractJavaSymbols(children[i], scope) \o extractJavaChildren(children, i + 1, scope)

\* the map from qualified name to symbol id that indexFile fills while it
\* inserts the symbols: a later symbol takes the entry of an earlier one
RECURSIVE symbolMapSet(_, _, _)
symbolMapSet(symbols, i, symbolMap) ==
  IF i > Len(symbols) THEN symbolMap
  ELSE symbolMapSet(symbols, i + 1,
                    {e \in symbolMap : e[1] # symbols[i].qualifiedName}
                    \cup {<<symbols[i].qualifiedName, i>>})

JavaInit ==
  /\ StoreInit
  /\ chain = ChainIdle
  /\ watch = NewWatcher(0)
  /\ job = NoJob
  /\ query = NoQuery
  /\ go = NoGo
  /\ java = NoJava
  /\ glob = NoGlob

\* parser.parse of a Java file: package p or none, and one class C
ParseJava(packageName, classBody) ==
  /\ java.pc = "idle"
  /\ java' = [pc |-> "parsed", packageName |-> packageName,
              tree |-> ClassDecl("C", classBody),
              symbols |-> <<>>, symbolMap |-> {}]
  /\ UNCHANGED <<disk, db, lastOp, chain, watch, job, query, go, glob>>

\* JavaExtractor.extract
ExtractJava ==
  /\ java.pc = "parsed"
  /\ java' = [java EXCEPT !.pc = "extracted",
                          !.symbols = extractJavaSymbols(java.tree, java.packageName)]
  /\ UNCHANGED <<disk, db, lastOp, chain, watch, job, query, go, glob>>

\* the loop of indexFile over extraction.symbols; the i-th symbol of the
\* file gets the i-th row
StoreJavaSymbols ==
  /\ java.pc = "extracted"
  /\ java' = [java EXCEPT !.pc = "stored",
                          !.symbolMap = symbolMapSet(java.symbols, 1, {})]
  /\ UNCHANGED <<disk, db, lastOp, chain, watch, job, query, go, glob>>

JavaNext ==
  \/ \E packageName \in PackageNames, classBody \in ClassBodies :
       ParseJava(packageName, classBody)
  \/ ExtractJava
  \/ StoreJavaSymbols

JavaSpec == JavaInit /\ [][JavaNext]_vars

---------------------------------------------------------------------------
(* The threshold test of the watcher over files whose line counts differ   *)
(* by less than, exactly and more than minChangeLines. The steps are those *)
(* of the watcher; the events are those of one file, which takes the       *)
(* contents below.                                                         *)

\* the contents written: 3, 9 and 1 lines
ThresholdContents == {1, 2, 4}

\* minChangeLines: unset, equal to the line differences 2 and 6 that the
\* contents have, and the default
ThresholdOptions == {0, 2, DefaultMinChangeLines, 6}

ThresholdInit ==
  /\ StoreInit
  /\ chain = ChainIdle
  /\ \E minChangeLines \in ThresholdOptions :
       watch = [NewWatcher(minChangeLines) EXCEPT !.phase = "watching"]
  /\ job = NoJob
  /\ query = NoQuery
  /\ go = NoGo
  /\ java = NoJava
  /\ glob = NoGlob

ThresholdNext ==
  \/ \E c \in ThresholdContents : FileWritten(PathA, c)
  \/ FileUnlinked(PathA)
  \/ DebounceFires(PathA)
  \/ OrphanFires(PathA)
  \/ DebounceResumes(PathA)
  \/ Tick
  \/ \E i \in 1..Len(watch.timers) : BatchFires(i)
  \/ StopWatching

ThresholdSpec == ThresholdInit /\ [][ThresholdNext]_vars

---------------------------------------------------------------------------
(* Indexer.indexFile over files with nested symbols, with call sites       *)
(* outside every symbol and with two symbols of one qualified name: the    *)
(* call rows it stores.                                                    *)

\* the contents of the files: see Extraction
CallContents == {1, 2, 3, 5}

CallInit ==
  /\ \E dk \in [Paths -> {0} \cup CallContents] : disk = dk
  /\ db = EmptyDb
  /\ lastOp = Op("init", NoPath, "done", TRUE)
  /\ chain = ChainIdle
  /\ watch = NewWatcher(0)
  /\ job = NoJob
  /\ query = NoQuery
  /\ go = NoGo
  /\ java = NoJava
  /\ glob = NoGlob

CallNext ==
  \/ \E p \in Paths, c \in CallContents : WriteFile(p, c)
  \/ \E p \in Paths : IndexFile(p, "none")

CallSpec == CallInit /\ [][CallNext]_vars

---------------------------------------------------------------------------
(* FileWatcher.matchesIncludePattern: the include pattern is rewritten     *)
(* into the source text of a regular expression, character by character,   *)
(* and the root-relative path of the event is tested against it. Patterns, *)
(* paths and regular expressions are sequences of characters.              *)

\* the most segments of an include pattern and of the path of an event
MaxPatternSegments == 3
MaxPathSegments == 3

\* the segments include patterns are made of
PatternSegments ==
  {<<"*", "*">>, <<"*">>, <<"?">>, <<"a">>, <<"b">>, <<"*", ".", "a">>}

\* the names of directories and files
PathSegments == {<<"a">>, <<"b">>, <<"a", "b">>, <<"b", ".", "a">>}

RECURSIVE JoinedSegments(_, _)
JoinedSegments(segments, n) ==
  IF n = 1 THEN segments
  ELSE {head \o <<"/">> \o tail : head \in segments, tail \in JoinedSegments(segments, n - 1)}

IncludePatterns ==
  UNION {JoinedSegments(PatternSegments, n) : n \in 1..MaxPatternSegments}
EventPaths ==
  UNION {JoinedSegments(PathSegments, n) : n \in 1..MaxPathSegments}

\* the characters the loop over specialChars escapes, in its order
SpecialChars == <<".", "+", "^", "$", "{", "}", "(", ")", "|", "[", "]", "\\">>

\* text.split(char).join(replacement)
RECURSIVE splitJoin(_, _, _)
splitJoin(text, char, replacement) ==
  IF text = <<>> THEN <<>>
  ELSE (IF Head(text) = char THEN replacement ELSE <<Head(text)>>)
       \o splitJoin(Tail(text), char, replacement)

\* the loop over specialChars: every occurrence of the i-th character and of
\* those after it gets a backslash in front
RECURSIVE escapeSpecialChars(_, _)
escapeSpecialChars(text, i) ==
  IF i > Len(SpecialChars) THEN text
  ELSE escapeSpecialChars(splitJoin(text, SpecialChars[i], <<"\\", SpecialChars[i]>>), i + 1)

\* text.replace(/\*\*/g, '.*'): the pairs of stars, from the left
RECURSIVE replaceDoubleStar(_)
replaceDoubleStar(text) ==
  IF Len(text) < 2 THEN text
  ELSE IF text[1] = "*" /\ text[2] = "*"
       THEN <<".", "*">> \o replaceDoubleStar(SubSeq(text, 3, Len(text)))
       ELSE <<text[1]>> \o replaceDoubleStar(Tail(text))

\* the source text of the regular expression between ^ and $
regexPatternOf(pattern) ==
  splitJoin(
    splitJoin(replaceDoubleStar(escapeSpecialChars(pattern, 1)),
              "*", <<"[", "^", "/", "]", "*">>),
    "?", <<"[", "^", "/", "]">>)

\* new RegExp: the atoms of the source text. An atom is a character after a
\* backslash, the class [^/], the dot or a plain character, repeated when a
\* star follows
RECURSIVE RegExp(_)
RegExp(text) ==
  IF text = <<>> THEN <<>>
  ELSE LET atom == IF text[1] = "\\" /\ Len(text) >= 2
                   THEN [kind |-> "char", char |-> text[2], length |-> 2]
                   ELSE IF Len(text) >= 4 /\ SubSeq(text, 1, 4) = <<"[", "^", "/", "]">>
                   THEN [kind |-> "notSlash", char |-> "/", length |-> 4]
                   ELSE IF text[1] = "."
                   THEN [kind |-> "any", char |-> ".", length |-> 1]
                   ELSE [kind |-> "char", char |-> text[1], length |-> 1]
           starred == Len(text) > atom.length /\ text[atom.length + 1] = "*"
       IN  <<[kind |-> atom.kind, char |-> atom.char, star |-> starred]>>
           \o RegExp(SubSeq(text, atom.length + (IF starred THEN 2 ELSE 1), Len(text)))

accepts(atom, char) ==
  CASE atom.kind = "char" -> char = atom.char
    [] atom.kind = "notSlash" -> char # "/"
    [] atom.kind = "any" -> TRUE

\* regex.test with both anchors: the atoms from the i-th on match the text
\* from the j-th character to its end
RECURSIVE regexTest(_, _, _, _)
regexTest(regex, i, text, j) ==
  IF i > Len(regex) THEN j > Len(text)
  ELSE IF regex[i].star
  THEN \/ regexTest(regex, i + 1, text, j)
       \/ /\ j <= Len(text)
          /\ accepts(regex[i], text[j])
          /\ regexTest(regex, i, text, j + 1)
  ELSE /\ j <= Len(text)
       /\ accepts(regex[i], text[j])
       /\ regexTest(regex, i + 1, text, j + 1)

\* FileWatcher.matchesIncludePattern on the root-relative path
RECURSIVE matchesIncludePattern(_, _, _)
matchesIncludePattern(relativePath, include, i) ==
  IF i > Len(include) THEN FALSE
  ELSE \/ regexTest(RegExp(regexPatternOf(include[i])), 1, relativePath, 1)
       \/ matchesIncludePattern(relativePath, include, i + 1)

GlobInit ==
  /\ StoreInit
  /\ chain = ChainIdle
  /\ watch = NewWatcher(0)
  /\ job = NoJob
  /\ query = NoQuery
  /\ go = NoGo
  /\ java = NoJava
  /\ glob = NoGlob

\* FileWatcher.start with the include patterns of the options
StartGlob(include) ==
  /\ glob.pc = "idle"
  /\ glob' = [pc |-> "watching", include |-> include, filePath |-> <<>>,
              debounced |-> FALSE]
  /\ UNCHANGED <<disk, db, lastOp, chain, watch, job, query, go, java>>

\* the add and change handlers of start: the event goes on to debounceIndex
\* when its path matches an include pattern
AddOrChange(filePath) ==
  /\ glob.pc = "watching"
  /\ glob' = [glob EXCEPT !.pc = "handled", !.filePath = filePath,
                          !.debounced = matchesIncludePattern(filePath, glob.include, 1)]
  /\ UNCHANGED <<disk, db, lastOp, chain, watch, job, query, go, java>>

GlobNext ==
  \/ \E pattern \in IncludePatterns : StartGlob(<<pattern>>)
  \/ \E filePath \in EventPaths : AddOrChange(filePath)

GlobSpec == GlobInit /\ [][GlobNext]_vars

---------------------------------------------------------------------------
(* Indexer.indexAll on the files of a project, in one of the orders in     *)
(* which the glob may enumerate them                                        *)

OrderInit ==
  /\ \E dk \in [Paths -> {0} \cup CallContents] : disk = dk
  /\ db = EmptyDb
  /\ lastOp = Op("init", NoPath, "done", TRUE)
  /\ chain = ChainIdle
  /\ watch = NewWatcher(0)
  /\ job = NoJob
  /\ query = NoQuery
  /\ go = NoGo
  /\ java = NoJava
  /\ glob = NoGlob

OrderNext ==
  \/ \E p \in Paths, c \in CallContents : WriteFile(p, c)
  \/ \E files \in scanFiles(disk) : IndexAll(files, [p \in Paths |-> "none"])

OrderSpec == OrderInit /\ [][OrderNext]_vars

---------------------------------------------------------------------------
(* Claims about the store and the indexer *)

FileIdOf(d, path) == (CHOOSE f \in getFileByPath(d, path) : TRUE).fileId

\* the file is on disk, has a stored row, and the row's hash is the content's
HashEqual(path) ==
  /\ disk[path] # 0
  /\ getFileByPath(db, path) # {}
  /\ (CHOOSE f \in getFileByPath(db, path) : TRUE).contentHash = hashContent(disk[path])

\* the file is on disk, has a stored row, and the row's hash is another one
HashDiffers(path) ==
  /\ disk[path] # 0
  /\ getFileByPath(db, path) # {}
  /\ (CHOOSE f \in getFileByPath(db, path) : TRUE).contentHash # hashContent(disk[path])

\* C1: an indexFile call on a changed file that fails after the hash
\* comparison (in parsing or in an insert) leaves the store as it was
C1_FailedIndexLeavesStore ==
  [][(/\ lastOp'.op = "indexFile"
      /\ lastOp'.outcome = "threw"
      /\ HashDiffers(lastOp'.path))
     => db' = db]_vars

\* C2: indexFile on a file whose hash equals the stored one, and indexAll
\* when that is so for every scanned file, leave the store as it was
C2_UnchangedTreeNoWrites ==
  [][(\/ lastOp'.op = "indexFile" /\ HashEqual(lastOp'.path)
      \/ /\ lastOp'.op = "indexAll"
         /\ \A p \in Paths : disk[p] # 0 => HashEqual(p))
     => db' = db]_vars

\* an indexAll over an indexed, unchanged tree with symbols has just run
C2_Witness ==
  /\ lastOp.op = "indexAll"
  /\ lastOp.noop
  /\ \E p \in Paths : disk[p] # 0
  /\ \A p \in Paths : disk[p] # 0 => HashEqual(p)
  /\ db.symbols # {} /\ db.calls # {} /\ db.refs # {}

\* C3: re-indexing a changed file F keeps every call row whose site file and
\* every reference row whose source file is another file
C3_OtherFilesEdgesKept ==
  [][(/\ lastOp'.op = "indexFile"
      /\ lastOp'.outcome = "done"
      /\ HashDiffers(lastOp'.path))
     => LET fileId == FileIdOf(db, lastOp'.path)
        IN  /\ \A c \in db.calls : c.siteFileId # fileId => c \in db'.calls
            /\ \A r \in db.refs : r.fromFileId # fileId => r \in db'.refs]_vars

\* C4: after handleFileDelete has deleted a file row, no symbol of the file,
\* no call sited in it, no reference from it and no embedding of one of its
\* symbols is left
C4_DeleteFileCascades ==
  [][(lastOp'.op = "unlink" /\ getFileByPath(db, lastOp'.path) # {})
     => LET fileId == FileIdOf(db, lastOp'.path)
            owned == {s.symbolId : s \in {x \in db.symbols : x.fileId = fileId}}
        IN  /\ getFileByPath(db', lastOp'.path) = {}
            /\ \A s \in db'.symbols : s.fileId # fileId
            /\ \A c \in db'.calls : c.siteFileId # fileId
            /\ \A r \in db'.refs : r.fromFileId # fileId
            /\ \A e \in db'.embeddings : e.symbolId \notin owned]_vars

\* a file row has just been deleted while the other file keeps its rows and
\* an embedding: the deleted file's rows are gone, nothing else is
C4_Witness ==
  /\ lastOp.op = "unlink"
  /\ ~lastOp.noop
  /\ db.seq.calls > Cardinality(db.calls)
  /\ db.seq.refs > Cardinality(db.refs)
  /\ db.symbols # {}
  /\ db.embeddings # {}

\* C5: every call row's caller, callee and site file exist in the store
C5_CallsReferToExistingRows ==
  \A c \in db.calls :
    /\ getSymbolById(db, c.callerSymbolId) # {}
    /\ getSymbolById(db, c.calleeSymbolId) # {}
    /\ \E f \in db.files : f.fileId = c.siteFileId

\* a call row is left after a deletion or a re-index removed other rows
C5_Witness ==
  /\ db.calls # {}
  /\ db.seq.symbols > Cardinality(db.symbols)
  /\ lastOp.op \in {"unlink", "unlinkDir", "indexFile", "rebuild"}
  /\ ~lastOp.noop

\* the symbols stored for the file at path
symbolsOfPath(d, path) ==
  {s \in d.symbols : \E f \in getFileByPath(d, path) : s.fileId = f.fileId}

\* C13: when indexFile throws for one file during indexAll, the run goes on
\* and ends normally: every file on disk, those after the failing one
\* included, has been taken up and has a row with the hash of its contents.
C13_IndexAllGoesOnAfterFailure ==
  (lastOp.op = "indexAll" /\ lastOp.outcome = "caught") =>
    \A p \in Paths :
      disk[p] # 0 =>
        /\ getFileByPath(db, p) # {}
        /\ HashEqual(p)

\* indexAll has caught an exception for d/a.ts, which was stored first and
\* has no symbols, and d2/b.ts, stored after it, has the only symbols the
\* store ever held
C13_Witness ==
  /\ lastOp.op = "indexAll"
  /\ lastOp.outcome = "caught"
  /\ getFileByPath(db, PathA) # {} /\ getFileByPath(db, PathB) # {}
  /\ FileIdOf(db, PathA) < FileIdOf(db, PathB)
  /\ symbolsOfPath(db, PathA) = {}
  /\ symbolsOfPath(db, PathB) # {}
  /\ db.seq.symbols = Cardinality(symbolsOfPath(db, PathB))

\* the path is the directory or lies below it
below(path, dir) ==
  \/ path = dir
  \/ /\ Len(path) > Len(dir)
     /\ \A i \in 1..Len(dir) : path[i] = dir[i]
     /\ path[Len(dir) + 1] = "/"

\* C17: on a directory-unlink event for d, exactly the stored files whose
\* path is d or starts with d and "/" are deleted; every other file row, one
\* in a sibling directory whose name begins with d included, is kept.
C17_DirectoryUnlinkDeletesSubtree ==
  [][lastOp'.op = "unlinkDir"
       => db'.files = {f \in db.files : ~below(f.path, lastOp'.path)}]_vars

\* the directory d has been unlinked: the row of d/a.ts is gone and the row
\* of d2/b.ts is kept
C17_Witness ==
  /\ lastOp.op = "unlinkDir"
  /\ lastOp.path = <<"d">>
  /\ ~lastOp.noop
  /\ getFileByPath(db, PathA) = {}
  /\ getFileByPath(db, PathB) # {}

\* a store without rows whose AUTOINCREMENT counters stand where those of d do
emptied(d) == [EmptyDb EXCEPT !.seq = d.seq]

\* the tree on disk is indexed and unchanged: the store has a row with the
\* current hash and the symbols of the contents for every file on disk, and
\* no row for any other path
indexedUnchanged(d, dk) ==
  \A p \in Paths :
    IF dk[p] = 0 THEN getFileByPath(d, p) = {}
    ELSE /\ getFileByPath(d, p) # {}
         /\ (CHOOSE f \in getFileByPath(d, p) : TRUE).contentHash = hashContent(dk[p])
         /\ Cardinality(symbolsOfPath(d, p)) = Len(Extraction(dk[p]).symbols)

\* C18: rebuild clears all rows and then runs indexAll: afterwards the store
\* holds exactly what indexAll produces on a store without rows for the
\* current tree, no file, symbol, call, reference or embedding row from
\* before is left, and rebuilding an indexed, unchanged tree gives every name
\* query as many symbols as before.
C18_RebuildFromEmptyStore ==
  [][lastOp'.op = "rebuild" =>
       /\ \E files \in scanFiles(disk) :
            \E fails \in FailPlans(emptied(db), disk, files) :
              db' = indexAll(emptied(db), disk, files, 1, fails)
       /\ \A f \in db'.files : f.fileId > db.seq.files
       /\ \A x \in db'.symbols : x.symbolId > db.seq.symbols
       /\ \A c \in db'.calls : c.callId > db.seq.calls
       /\ \A r \in db'.refs : r.refId > db.seq.refs
       /\ db'.embeddings = {}
       /\ (indexedUnchanged(db, disk) /\ lastOp'.outcome = "done") =>
            \A name \in {"f", "g", "h"} :
              Len(findSymbolsByName(db', name)) = Len(findSymbolsByName(db, name))]_vars

\* a tree that was indexed before has been rebuilt: d/a.ts has a new row
\* with its symbols, and the store holds no embedding
C18_Witness ==
  /\ lastOp.op = "rebuild"
  /\ lastOp.outcome = "done"
  /\ getFileByPath(db, PathA) # {}
  /\ FileIdOf(db, PathA) > 1
  /\ symbolsOfPath(db, PathA) # {}
  /\ db.embeddings = {}
  /\ indexedUnchanged(db, disk)

---------------------------------------------------------------------------
(* Claims about buildCallChain *)

CallPairs == {<<c.callerSymbolId, c.calleeSymbolId>> : c \in db.calls}

\* C6: for every start symbol, direction and requested depth D >= 0 the walk
\* terminates (it takes no more steps than there are symbols and calls to
\* consume) and the returned tree has no node deeper than D.
C6_TerminatesWithinDepth ==
  /\ chain.steps <= Cardinality(db.symbols) + Cardinality(db.calls)
  /\ (chain.pc = "done" /\ chain.depth >= 0) =>
       \A k \in 1..Len(chain.nodes) : chain.nodes[k].depth <= chain.depth

\* C7: each symbol identifier occurs in at most one node of the tree, and for
\* the cycle f1 -> f2 -> f1 the forward tree from f1 with depth 5 is f1 with
\* the single child f2, which has no children.
C7_EachSymbolOnce ==
  /\ \A i, j \in 1..Len(chain.nodes) :
       chain.nodes[i].symbolId = chain.nodes[j].symbolId => i = j
  /\ (/\ CallPairs = {<<1, 2>>, <<2, 1>>}
      /\ chain.pc = "done" /\ chain.from = 1
      /\ chain.direction = "forward" /\ chain.depth = 5) =>
       /\ Len(chain.nodes) = 2
       /\ chain.nodes[1].symbolId = 1
       /\ childrenOf(1) = <<2>>
       /\ childrenOf(2) = <<>>

C7_Witness ==
  /\ CallPairs = {<<1, 2>>, <<2, 1>>}
  /\ chain.pc = "done" /\ chain.from = 1
  /\ chain.direction = "forward" /\ chain.depth = 5
  /\ chain.visited = {1, 2}
  /\ chain.steps = 4

---------------------------------------------------------------------------
(* Claims about the watcher *)

pending == Range(watch.pendingIndexQueue)

decremented(timers) == [i \in 1..Len(timers) |-> timers[i] - 1]

\* C8: when the watcher is shut down (stopWatching or the SIGINT/SIGTERM
\* cleanup), every path pending at that moment is passed to indexFile before
\* the shutdown completes.
C8_ShutdownIndexesPending ==
  [][(watch.phase = "watching" /\ watch'.phase # "watching") =>
       \A p \in pending : p \in Range(watch'.indexed)]_vars

\* C9: every path of the pending set is passed to indexFile: a path leaves
\* the pending set only in a step that passes it to indexFile, a batch fire
\* empties the pending set and clears the timer, and whenever paths are
\* pending afterwards a batch timer is armed for them.
C9_PendingReachesIndexFile ==
  [][/\ \A p \in pending : p \notin Range(watch'.pendingIndexQueue) =>
                             p \in Range(watch'.indexed)
     /\ (watch'.phase = watch.phase /\ Len(watch'.timers) < Len(watch.timers)) =>
          (watch'.pendingIndexQueue = <<>> /\ watch'.batchTimer = 0)
     /\ watch'.pendingIndexQueue # <<>> =>
          (watch'.batchTimer # 0 /\ watch'.timers # <<>>)]_vars

\* C10: at most one batch timer exists at any time; it is armed with the full
\* interval by an enqueue that finds none armed, and while it is armed no
\* step (so no enqueue) adds a timer or moves its firing time: it only counts
\* down until it fires or is cleared.
C10_OneBatchTimerNotPostponed ==
  [][/\ Len(watch'.timers) <= 1
     /\ (watch.batchTimer = 0 /\ watch'.batchTimer # 0) =>
          watch'.timers = <<BatchIntervalMs>>
     /\ watch.batchTimer # 0 =>
          watch'.timers \in {watch.timers, decremented(watch.timers), <<>>}]_vars

C10_Witness ==
  /\ watch.batchTimer = 1
  /\ watch.timers = <<BatchIntervalMs - 1>>
  /\ watch.pendingIndexQueue = <<PathB, PathA>>
  /\ watch.suspended[PathA] = 1
  /\ watch.debounceTimers[PathA] = "none"

---------------------------------------------------------------------------
(* Claims about summarizeAll and generateAll *)

\* the position of a symbol in the list of the symbols that need processing
resultOf(j, s) == j.results[CHOOSE i \in 1..Len(j.results) : j.results[i].symbolId = s]

\* every request the retry loop sends for the symbol has failed
failedAllRetries(j, s) ==
  s # j.throwing /\ j.maxRetries > 0 /\ j.attempts[s] = j.maxRetries

\* C11: when the requests of one symbol fail on every retry, the run does not
\* throw, the symbol gets a result that carries an error, every other symbol
\* of the same and the later batches still has its request sent, and the
\* returned list holds exactly one result per symbol that needed processing,
\* in the order of the symbols.
C11_FailedSymbolGetsErrorResult ==
  /\ job.pc # "thrown"
  /\ job.pc = "returned" =>
       /\ [i \in 1..Len(job.results) |-> job.results[i].symbolId] = job.symbols
       /\ \A s \in Range(job.symbols) :
            /\ failedAllRetries(job, s) => resultOf(job, s).error
            /\ s # job.throwing /\ job.maxRetries > 0 => job.requests[s] >= 1
            /\ job.status[s] = "ok" => ~resultOf(job, s).error

\* a run has returned in which all the requests of the first symbol failed
\* and the symbols of its batch and of the next batch got their answers
C11_Witness ==
  /\ job.pc = "returned"
  /\ job.concurrency = 2
  /\ Len(job.symbols) = 3
  /\ failedAllRetries(job, 1)
  /\ resultOf(job, 1).error
  /\ ~resultOf(job, 2).error
  /\ ~resultOf(job, 3).error

\* the number of the batch that holds the symbol
batchOf(j, s) == CHOOSE b \in 1..Len(j.batches) : s \in Range(j.batches[b])

\* C12: at most concurrency requests are in flight at any moment, all of
\* them for symbols of the batch being awaited, and no request of a batch has
\* been sent while a symbol of an earlier batch is not settled.
C12_AtMostConcurrencyInFlight ==
  job.pc = "running" =>
    /\ Cardinality(inFlight(job)) <= job.concurrency
    /\ inFlight(job) \subseteq currentBatch(job)
    /\ \A s, t \in Range(job.symbols) :
         batchOf(job, s) < batchOf(job, t) /\ job.requests[t] > 0
           => job.status[s] \in {"ok", "error"}

\* the second batch is awaited with as many requests in flight as the
\* concurrency allows
C12_Witness ==
  /\ job.pc = "running"
  /\ job.batch = 2
  /\ Cardinality(inFlight(job)) = job.concurrency

---------------------------------------------------------------------------
(* Claims about findSymbol and findSymbols *)

\* the stored symbols with the requested name that satisfy every option
\* supplied, in the order of the scan
passing(d, options) ==
  LET named == findSymbolsByName(d, options.name)
      rows == [i \in 1..Len(named) |-> CHOOSE s \in d.symbols : s.symbolId = named[i]]
      passes(s) ==
        /\ options.language = "" \/ s.language = options.language
        /\ options.inFile = <<>> \/ includes(pathOf(d, s), options.inFile)
        /\ options.kind = "" \/ s.kind = options.kind
  IN  SelectSeq(rows, passes)

\* the qualified names of the queried trees, in lexicographic order
QualifiedNames == <<"f", "f.g", "g">>

lexRank(q) == CHOOSE i \in 1..Len(QualifiedNames) : QualifiedNames[i] = q

\* C14: when several symbols share the requested name, findSymbol returns
\* the first symbol that passes the inFile filter and then the kind filter,
\* each when supplied, and none when no symbol passes; it never returns a
\* symbol that fails a supplied filter.
C14_FindSymbolAppliesFilters ==
  (/\ query.pc = "answered"
   /\ query.op = "findSymbol"
   /\ Len(findSymbolsByNameAndLanguage(db, query.options.name,
                                       query.options.language)) > 1)
    => LET remaining == passing(db, query.options)
       IN  query.result = IF remaining = <<>> THEN <<>> ELSE <<remaining[1]>>

\* C15: findSymbols returns exactly the stored symbols whose name is the
\* requested one and that satisfy every supplied language, inFile and kind
\* option, each once, in the lexicographic order of their qualified names.
C15_FindSymbolsFiltersAndOrders ==
  (query.pc = "answered" /\ query.op = "findSymbols") =>
    /\ Range(query.result) = Range(passing(db, query.options))
    /\ Len(query.result) = Len(passing(db, query.options))
    /\ \A i, j \in 1..Len(query.result) :
         i < j => lexRank(query.result[i].qualifiedName)
                    <= lexRank(query.result[j].qualifiedName)

---------------------------------------------------------------------------
(* Claims about semanticSearch *)

\* the option as the caller gave it, or its default when the caller gave none
requested(value, default) == IF value = NoOption THEN default ELSE value

\* C16: for any query vector, topK and minSimilarity, the list returned by
\* semanticSearch is ordered by non-increasing similarity, every similarity
\* lies in [0, 1] and is not below minSimilarity, and the list has at most
\* topK elements.
C16_SearchResultBounded ==
  (query.pc = "answered" /\ query.op = "semanticSearch") =>
    /\ \A i, j \in 1..Len(query.result) :
         i < j => query.result[i].similarity >= query.result[j].similarity
    /\ \A i \in 1..Len(query.result) :
         /\ query.result[i].similarity \in 0..SimilarityOne
         /\ query.result[i].similarity
              >= requested(query.minSimilarity, DefaultMinSimilarity)
    /\ Len(query.result) <= requested(query.topK, DefaultTopK)

\* the same for every topK the caller gives that is not 0
C16_HoldsForPositiveTopK ==
  (query.pc = "answered" /\ query.op = "semanticSearch" /\ query.topK # 0) =>
    C16_SearchResultBounded

---------------------------------------------------------------------------
(* Claims about the nested struct fields of Go *)

\* every field of the struct and of the anonymous structs nested in it, with
\* its nesting depth; the direct fields of the named struct are at depth 0
RECURSIVE fieldsAt(_, _, _)
fieldsAt(structNode, structName, depth) ==
  {[qualifiedName |-> Append(structName, n), depth |-> depth] :
     n \in {x \in {"Data", "Level", "Base"} :
              \/ x = "Data" /\ structNode.data
              \/ x = "Level" /\ structNode.nested # <<>>
              \/ x = "Base" /\ structNode.embedded}}
  \cup (IF structNode.nested = <<>> THEN {}
        ELSE fieldsAt(structNode.nested[1], Append(structName, "Level"), depth + 1))

\* the qualified names of the field symbols of a list of symbols
fieldNames(symbols) ==
  {symbols[i].qualifiedName : i \in {j \in 1..Len(symbols) : symbols[j].kind = "field"}}

\* the maxNestedStructDepth the caller asked for: the option, or 3
requestedDepth(option) == IF option = NoOption THEN DefaultNestedStructDepth ELSE option

\* C19: after reindexAll on an index created with maxNestedStructDepth = k
\* the store contains the fields of nesting depth <= k and none deeper, also
\* when the same database file was indexed before with another k and the Go
\* file is unchanged.
C19_StoreFollowsDepthOption ==
  go.pc = "indexed" =>
    fieldNames(go.symbols) =
      {f.qualifiedName : f \in {x \in fieldsAt(go.file, <<"T">>, 0) :
                                  x.depth <= requestedDepth(go.option)}}

---------------------------------------------------------------------------
(* Claims about the extractors *)

\* C21: within one file, any two distinct symbols with the same short name
\* have different qualified names, so that a qualified name identifies at
\* most one symbol of the file: the map from qualified name to symbol id
\* that indexFile fills has an entry for every symbol it stored.
C21_QualifiedNamesDistinct ==
  java.pc \in {"extracted", "stored"} =>
    /\ \A i, j \in 1..Len(java.symbols) :
         (i # j /\ java.symbols[i].name = java.symbols[j].name)
           => java.symbols[i].qualifiedName # java.symbols[j].qualifiedName
    /\ java.pc = "stored" => Cardinality(java.symbolMap) = Len(java.symbols)


---------------------------------------------------------------------------
(* Claims about the debounce timers and the threshold test of the watcher *)

\* the debounce timers of a path that are set and have neither fired nor
\* been cleared
pendingTimers(w, p) ==
  (IF w.debounceTimers[p] = "armed" THEN 1 ELSE 0) + w.orphans[p]

\* C22: for each path at most one debounce timer is pending at any time (an
\* add or change event for a path whose timer is pending clears that timer
\* before it sets the new one), so that the events of a burst on one path
\* end in one run of the timer callback: one threshold test and at most one
\* enqueue of the path.
C22_OneDebounceTimerPerPath ==
  \A p \in Paths : pendingTimers(watch, p) <= 1


\* the step is the end of the timer callback of debounceIndex for p, from
\* the result of shouldIndexFile on
thresholdTested(p) ==
  /\ watch'.phase = watch.phase
  /\ \/ watch'.suspended[p] < watch.suspended[p]
     \/ /\ watch.minChangeLines = 0
        /\ watch.debounceTimers[p] = "armed"
        /\ watch'.debounceTimers[p] = "none"

\* the path has a snapshot, the file can be read, and its line count is
\* less than minChangeLines away from the line count of the snapshot
smallChange(w, dk, p) ==
  /\ w.fileStats[p] # -1
  /\ dk[p] # 0
  /\ lineCount(dk[p]) - w.fileStats[p] < w.minChangeLines
  /\ w.fileStats[p] - lineCount(dk[p]) < w.minChangeLines

\* C23: when the timer callback of a path runs its threshold test, the event
\* is dropped (the pending set and the batch timers stay as they are) if and
\* only if the path is known to the watcher and its current line count is
\* less than the threshold away from the line count of its last snapshot; in
\* every other case the path is in the pending set afterwards and a batch
\* timer is armed.
C23_DroppedIffSmallChange ==
  [][\A p \in Paths :
       thresholdTested(p) =>
         IF smallChange(watch, disk, p)
         THEN /\ watch'.pendingIndexQueue = watch.pendingIndexQueue
              /\ watch'.timers = watch.timers
              /\ watch'.batchTimer = watch.batchTimer
         ELSE /\ watch'.pendingIndexQueue = setAdd(watch.pendingIndexQueue, p)
              /\ watch'.batchTimer # 0
              /\ watch'.batchTimer \in 1..Len(watch'.timers)
              /\ watch.batchTimer # 0 => watch'.timers = watch.timers]_vars


\* the file was indexed with three lines and then written with one line;
\* the threshold test has run on the new content (its line count is the
\* snapshot) and has dropped the event: nothing is pending and the store
\* still has the old hash
C23_Witness ==
  /\ watch.minChangeLines = DefaultMinChangeLines
  /\ disk[PathA] = 4
  /\ watch.fresh[PathA]
  /\ watch.fileStats[PathA] = lineCount(4)
  /\ watch.pendingIndexQueue = <<>>
  /\ \E f \in getFileByPath(db, PathA) : f.contentHash = hashContent(1)


\* C27: once stop() has returned, no path is added to the pending set and
\* no batch timer is armed any more, also when a timer callback of
\* debounceIndex had fired before and was suspended in shouldIndexFile when
\* stop() was called.
C27_NothingQueuedAfterStop ==
  [][watch.phase = "stopped" =>
       /\ Range(watch'.pendingIndexQueue) \subseteq Range(watch.pendingIndexQueue)
       /\ watch'.batchTimer # 0 => watch'.batchTimer = watch.batchTimer
       /\ Len(watch'.timers) <= Len(watch.timers)]_vars


\* C30: when a watched file was removed (its rows deleted on the unlink
\* event) and a file is created again at the same path, the add event leads
\* to the path being enqueued and re-indexed whatever its line count: a
\* threshold test for a file that exists and has no row in the store ends
\* with the path in the pending set, so that the store does not stay without
\* records for the file.
C30_RecreatedFileEnqueued ==
  [][\A p \in Paths :
       (/\ watch.phase = "watching"
        /\ thresholdTested(p)
        /\ disk[p] # 0
        /\ getFileByPath(db, p) = {})
         => p \in Range(watch'.pendingIndexQueue)]_vars


---------------------------------------------------------------------------
(* Claims about the call rows and the order of indexing *)

\* the symbol rows of a file that span a line
spanning(d, fileId, line) ==
  {s \in d.symbols : s.fileId = fileId /\ s.startLine <= line /\ line <= s.endLine}

\* C24: indexFile stores a call row for an extracted call site exactly when
\* a symbol of the store has the callee's short name and a symbol of the
\* file spans the start line of the call; the callee of the row is the first
\* symbol with the name and its caller is the symbol of the file that spans
\* the line with the smallest span; for every other call site no row is
\* stored, and indexFile ends without an error.
C24_CallRowPerResolvedSite ==
  [][(lastOp'.op = "indexFile" /\ ~lastOp'.noop) =>
       /\ lastOp'.outcome = "done"
       /\ LET fileId == (CHOOSE f \in getFileByPath(db', lastOp'.path) : TRUE).fileId
              calls == Extraction(disk[lastOp'.path]).calls
          IN  \A k \in 1..Len(calls) :
                LET line == calls[k].siteStartLine
                    rows == {c \in db'.calls :
                               c.siteFileId = fileId /\ c.siteStartLine = line}
                    callees == {s \in db'.symbols : s.name = calls[k].calleeName}
                    callers == spanning(db', fileId, line)
                IN  IF callees = {} \/ callers = {} THEN rows = {}
                    ELSE /\ Cardinality(rows) = 1
                         /\ \A c \in rows :
                              /\ \A s \in callees : c.calleeSymbolId <= s.symbolId
                              /\ \E s \in callers :
                                   /\ c.callerSymbolId = s.symbolId
                                   /\ \A o \in callers :
                                        s.endLine - s.startLine <= o.endLine - o.startLine]_vars


---------------------------------------------------------------------------
(* Claims about the include filter of the watcher *)

\* the glob semantics of the claim: the pattern from its i-th character on
\* matches the path from its j-th character to its end
RECURSIVE globMatches(_, _, _, _)
globMatches(pattern, i, path, j) ==
  IF i > Len(pattern) THEN j > Len(path)
  ELSE IF pattern[i] = "*" /\ i < Len(pattern) /\ pattern[i + 1] = "*"
  THEN \/ \E k \in j..(Len(path) + 1) : globMatches(pattern, i + 2, path, k)
       \/ /\ i + 2 <= Len(pattern)
          /\ pattern[i + 2] = "/"
          /\ globMatches(pattern, i + 3, path, j)
  ELSE IF pattern[i] = "*"
  THEN \E k \in j..(Len(path) + 1) :
         /\ \A x \in j..(k - 1) : path[x] # "/"
         /\ globMatches(pattern, i + 1, path, k)
  ELSE IF pattern[i] = "?"
  THEN j <= Len(path) /\ path[j] # "/" /\ globMatches(pattern, i + 1, path, j + 1)
  ELSE j <= Len(path) /\ path[j] = pattern[i] /\ globMatches(pattern, i + 1, path, j + 1)

\* C25: an add or change event is passed on to debouncing if and only if its
\* root-relative path matches at least one include pattern under the glob
\* semantics where ** matches any number of path segments, * any run of
\* characters other than /, ? one character other than /, and every other
\* character itself.
C25_DebouncedIffGlobMatches ==
  glob.pc = "handled" =>
    (glob.debounced <=>
       \E i \in 1..Len(glob.include) : globMatches(glob.include[i], 1, glob.filePath, 1))


---------------------------------------------------------------------------
(* Claims about the retry loop of the HTTP requests *)

\* the requests sent for the symbol after its first one
retries(j, s) == IF j.requests[s] = 0 THEN 0 ELSE j.requests[s] - 1

RECURSIVE withinEdges(_)
withinEdges(n) ==
  IF n = 0 THEN {chain.from}
  ELSE LET near == withinEdges(n - 1)
       IN  near \cup {p[2] : p \in {q \in CallPairs : q[1] \in near /\ chain.direction = "forward"}}
                \cup {p[1] : p \in {q \in CallPairs : q[2] \in near /\ chain.direction = "backward"}}

\* C28: for maximum depth D, every symbol reachable from the start symbol by
\* a path of at most D call edges in the chosen direction appears in the
\* returned tree.
C28_ReachableWithinDepthAppears ==
  (chain.pc = "done" /\ getSymbolById(db, chain.from) # {}) =>
    \A s \in withinEdges(chain.maxDepth) :
      \E k \in 1..Len(chain.nodes) : chain.nodes[k].symbolId = s


\* a symbol row without its row ids: the path of its file, its qualified
\* name and its first line
symbolKey(d, symbolId) ==
  LET s == CHOOSE x \in d.symbols : x.symbolId = symbolId
  IN  <<(CHOOSE f \in d.files : f.fileId = s.fileId).path, s.qualifiedName, s.startLine>>

\* the call and reference rows of a store without their row ids
edgesOf(d) ==
  [calls |-> {<<symbolKey(d, c.callerSymbolId), symbolKey(d, c.calleeSymbolId),
                c.siteStartLine>> : c \in d.calls},
   refs |-> {<<(CHOOSE f \in d.files : f.fileId = r.fromFileId).path, r.fromStartLine,
               symbolKey(d, r.toSymbolId)>> : r \in d.refs}]

\* C29: the call and reference edges that indexAll stores on an empty store
\* are the same for every order in which the files are enumerated: a call in
\* file A to a function defined only in file B is recorded whether A is
\* indexed before or after B.
C29_EdgesIndependentOfOrder ==
  [][(db = EmptyDb /\ lastOp'.op = "indexAll") =>
       \A files \in scanFiles(disk) :
         edgesOf(indexAll(EmptyDb, disk, files, 1, [p \in Paths |-> "none"])) = edgesOf(db')]_vars

====
